---- MODULE Spec2Model ----
(***************************************************************************)
(* A model of the xenon XML repair engine (src/src/xenon/parser.py,        *)
(* src/src/xenon/security.py) and of the streaming repair proof of concept *)
(* (src/poc_streaming.py).                                                 *)
(*                                                                         *)
(* Text is a sequence of one-character strings.  Offsets into text are     *)
(* 0-based, as in the Python source: At(s, i) is s[i] and Slice(s, a, b)   *)
(* is s[a:b].                                                              *)
(***************************************************************************)
EXTENDS Integers, Sequences, FiniteSets, TLC

VARIABLES
    cfg,                  \* XMLRepairEngine.config (flags and match_threshold)
    xml_string,           \* the input: the argument of repair_xml, or the stream
    pc,                   \* repair_xml: "idle", "start", "rebuild" or "done"
    namespaces,           \* repair_xml: namespaces (prefixes to inject, in order)
    tokens,               \* repair_xml: tokens
    i,                    \* repair_xml: index of the next token
    result,               \* repair_xml: result, the list of emitted pieces
    tag_stack,            \* repair_xml: tag_stack of <<original, lowercase>>
    dangerous_tag_stack,  \* repair_xml: dangerous_tag_stack
    first_open_tag,       \* repair_xml: first_open_tag
    text_buffer,          \* repair_xml: text_buffer
    in_cdata_candidate,   \* repair_xml: in_cdata_candidate
    repaired,             \* the value repair_xml returns (set when pc = "done")
    pending,              \* streaming: the text the caller has not fed yet
    fed,                  \* streaming: the text fed so far
    buffer,               \* StreamingXMLRepairPOC.buffer
    state,                \* StreamingXMLRepairPOC.state
    stream_stack,         \* StreamingXMLRepairPOC.tag_stack
    saw_first_tag,        \* StreamingXMLRepairPOC.saw_first_tag
    yielded,              \* streaming: the fragments the feed calls yielded, joined
    final,                \* streaming: the fragments finalize yielded, in order
    spc,                  \* streaming: "idle", "open", "finalized", "aborted", "failed"
    max_nesting_depth,    \* streaming: maxNestingDepth, 0 when not configured
    depth                 \* streaming: the session's nesting depth counter

vars == <<cfg, xml_string, pc, namespaces, tokens, i, result, tag_stack,
          dangerous_tag_stack, first_open_tag, text_buffer, in_cdata_candidate,
          repaired, pending, fed, buffer, state, stream_stack, saw_first_tag,
          yielded, final, spc, max_nesting_depth, depth>>

coreVars == <<cfg, xml_string, pc, namespaces, tokens, i, result, tag_stack,
              dangerous_tag_stack, first_open_tag, text_buffer,
              in_cdata_candidate, repaired>>

streamVars == <<pending, fed, buffer, state, stream_stack, saw_first_tag,
                yielded, final, spc, max_nesting_depth, depth>>

-----------------------------------------------------------------------------
(* Characters and the str methods the source uses.                         *)

LowerLetters == {"a","b","c","d","e","f","g","h","i","j","k","l","m",
                 "n","o","p","q","r","s","t","u","v","w","x","y","z"}

UpperLetters == {"A","B","C","D","E","F","G","H","I","J","K","L","M",
                 "N","O","P","Q","R","S","T","U","V","W","X","Y","Z"}

Digits == {"0","1","2","3","4","5","6","7","8","9"}

LowerSeq == <<"a","b","c","d","e","f","g","h","i","j","k","l","m",
              "n","o","p","q","r","s","t","u","v","w","x","y","z">>

UpperSeq == <<"A","B","C","D","E","F","G","H","I","J","K","L","M",
              "N","O","P","Q","R","S","T","U","V","W","X","Y","Z">>

ToLower == [c \in UpperLetters |-> LowerSeq[CHOOSE k \in 1..26 : UpperSeq[k] = c]]

ToUpper == [c \in LowerLetters |-> UpperSeq[CHOOSE k \in 1..26 : LowerSeq[k] = c]]

isspace(c) == c \in {" ", "\n", "\t", "\r"}

isalpha(c) == c \in LowerLetters \cup UpperLetters

isalnum(c) == isalpha(c) \/ c \in Digits

LowerC(c) == IF c \in UpperLetters THEN ToLower[c] ELSE c

UpperC(c) == IF c \in LowerLetters THEN ToUpper[c] ELSE c

lower(s) == [k \in 1..Len(s) |-> LowerC(s[k])]

upper(s) == [k \in 1..Len(s) |-> UpperC(s[k])]

Min2(a, b) == IF a <= b THEN a ELSE b

At(s, k) == s[k + 1]

Slice(s, a, b) ==
    LET hi == Min2(b, Len(s))
    IN  IF a >= hi THEN <<>> ELSE SubSeq(s, a + 1, hi)

startswith(s, p) == Len(p) <= Len(s) /\ SubSeq(s, 1, Len(p)) = p

endswith(s, p) == Len(p) <= Len(s) /\ SubSeq(s, Len(s) - Len(p) + 1, Len(s)) = p

RECURSIVE find(_, _, _)
find(s, sub, start) ==
    IF start + Len(sub) > Len(s) THEN -1
    ELSE IF SubSeq(s, start + 1, start + Len(sub)) = sub THEN start
    ELSE find(s, sub, start + 1)

contains(s, sub) == find(s, sub, 0) # -1

RECURSIVE replace(_, _, _)
replace(s, old, new) ==
    LET k == find(s, old, 0)
    IN  IF k = -1 THEN s
        ELSE Slice(s, 0, k) \o new \o replace(Slice(s, k + Len(old), Len(s)), old, new)

RECURSIVE lstrip(_)
lstrip(s) == IF s # <<>> /\ isspace(Head(s)) THEN lstrip(Tail(s)) ELSE s

RECURSIVE rstrip(_)
rstrip(s) ==
    IF s # <<>> /\ isspace(s[Len(s)]) THEN rstrip(SubSeq(s, 1, Len(s) - 1)) ELSE s

strip(s) == rstrip(lstrip(s))

RECURSIVE SkipSpace(_, _)
SkipSpace(s, k) == IF k < Len(s) /\ isspace(At(s, k)) THEN SkipSpace(s, k + 1) ELSE k

RECURSIVE SkipNonSpace(_, _)
SkipNonSpace(s, k) ==
    IF k < Len(s) /\ ~isspace(At(s, k)) THEN SkipNonSpace(s, k + 1) ELSE k

\* s.split()[0] if s.split() else s
FirstWord(s) ==
    LET a == SkipSpace(s, 0)
    IN  IF a >= Len(s) THEN s ELSE Slice(s, a, SkipNonSpace(s, a))

RECURSIVE Join(_)
Join(pieces) == IF pieces = <<>> THEN <<>> ELSE Head(pieces) \o Join(Tail(pieces))

-----------------------------------------------------------------------------
(* XMLRepairEngine.levenshtein_distance and find_best_matching_tag.        *)

Min3(a, b, c) == Min2(a, Min2(b, c))

\* The same row with a substitution charged for equal characters too.  Not
\* the code.
RECURSIVE SubstituteAlways(_, _, _, _)
SubstituteAlways(previous_row, c1, s2, current_row) ==
    LET j == Len(current_row) - 1
    IN  IF j >= Len(s2) THEN current_row
        ELSE LET insertions == previous_row[j + 2] + 1
                 deletions == current_row[j + 1] + 1
                 substitutions == previous_row[j + 1] + 1
             IN  SubstituteAlways(previous_row, c1, s2,
                                  Append(current_row, Min3(insertions, deletions, substitutions)))

RECURSIVE LevCurrentRow(_, _, _, _)
LevCurrentRow(previous_row, c1, s2, current_row) ==
    LET j == Len(current_row) - 1
    IN  IF j >= Len(s2) THEN current_row
        ELSE LET insertions == previous_row[j + 2] + 1
                 deletions == current_row[j + 1] + 1
                 substitutions == previous_row[j + 1] + (IF c1 # s2[j + 1] THEN 1 ELSE 0)
             IN  LevCurrentRow(previous_row, c1, s2,
                               Append(current_row, Min3(insertions, deletions, substitutions)))

\* The loop "for i, c1 in enumerate(s1)".  A row starts with the number of
\* characters of s1 already consumed: range(len(s2) + 1) starts with 0 and
\* current_row with i + 1, so the loop index is read off previous_row.
RECURSIVE LevRows(_, _, _)
LevRows(s1, s2, previous_row) ==
    LET k == previous_row[1]
    IN  IF k >= Len(s1) THEN previous_row
        ELSE LevRows(s1, s2, LevCurrentRow(previous_row, s1[k + 1], s2, <<k + 1>>))

LevOrdered(s1, s2) ==
    IF Len(s2) = 0 THEN Len(s1)
    ELSE LET last_row == LevRows(s1, s2, [k \in 1..(Len(s2) + 1) |-> k - 1])
         IN  last_row[Len(last_row)]

levenshtein_distance(s1, s2) ==
    IF Len(s1) < Len(s2) THEN LevOrdered(s2, s1) ELSE LevOrdered(s1, s2)

NoMatch == [found |-> FALSE, index |-> -1, tag |-> <<>>, distance |-> -1]

\* The same scan with "distance <= best_distance": among entries at the same
\* distance the last one scanned (the outermost) is kept.  Not the code.
RECURSIVE KeepLastOnTies(_, _, _, _, _)
KeepLastOnTies(closing_tag, stack, k, best, match_threshold) ==
    LET original_tag == At(stack, k)[1]
        tag_lower == At(stack, k)[2]
        Compare(distance) ==
            IF ~best.found \/ distance <= best.distance
            THEN KeepLastOnTies(closing_tag, stack, k - 1,
                                [found |-> TRUE, index |-> k, tag |-> original_tag,
                                 distance |-> distance], match_threshold)
            ELSE KeepLastOnTies(closing_tag, stack, k - 1, best, match_threshold)
    IN  IF k < 0
        THEN IF best.found /\ best.distance <= match_threshold THEN best ELSE NoMatch
        ELSE IF tag_lower = closing_tag
        THEN [found |-> TRUE, index |-> k, tag |-> original_tag, distance |-> 0]
        ELSE Compare(levenshtein_distance(tag_lower, closing_tag))

\* The scan of find_best_matching_tag from stack index k down to 0; best is the
\* best inexact entry seen so far (best.found = FALSE stands for distance inf).
RECURSIVE FindBestScan(_, _, _, _, _)
FindBestScan(closing_tag, stack, k, best, match_threshold) ==
    LET original_tag == At(stack, k)[1]
        tag_lower == At(stack, k)[2]
        Compare(distance) ==
            IF ~best.found \/ distance < best.distance
            THEN FindBestScan(closing_tag, stack, k - 1,
                              [found |-> TRUE, index |-> k, tag |-> original_tag,
                               distance |-> distance], match_threshold)
            ELSE FindBestScan(closing_tag, stack, k - 1, best, match_threshold)
    IN  IF k < 0
        THEN IF best.found /\ best.distance <= match_threshold THEN best ELSE NoMatch
        ELSE IF tag_lower = closing_tag
        THEN [found |-> TRUE, index |-> k, tag |-> original_tag, distance |-> 0]
        ELSE Compare(levenshtein_distance(tag_lower, closing_tag))

\* Two matchers that are not find_best_matching_tag: one that never finds an
\* entry and one that always takes the top of the stack.  The properties of
\* the close-tag branch are shown to depend on the matcher by failing for them.
NoBestMatch(closing_tag, stack, match_threshold) == NoMatch

TopMatch(closing_tag, stack, match_threshold) ==
    IF stack = <<>> THEN NoMatch
    ELSE [found |-> TRUE, index |-> Len(stack) - 1, tag |-> stack[Len(stack)][1],
          distance |-> 0]

find_best_matching_tag(closing_tag, stack, match_threshold) ==
    IF stack = <<>> THEN NoMatch
    ELSE FindBestScan(closing_tag, stack, Len(stack) - 1, NoMatch, match_threshold)

-----------------------------------------------------------------------------
(* XMLSecurityFilter.                                                      *)

DANGEROUS_PI_PATTERNS ==
    << <<"p","h","p">>, <<"a","s","p">>, <<"j","s","p">>, <<"r","u","b","y">>,
       <<"p","y","t","h","o","n">>, <<"p","e","r","l">>, <<"e","x","e","c">> >>

DANGEROUS_TAGS ==
    << <<"s","c","r","i","p","t">>, <<"i","f","r","a","m","e">>,
       <<"o","b","j","e","c","t">>, <<"e","m","b","e","d">>,
       <<"a","p","p","l","e","t">>, <<"m","e","t","a">>, <<"l","i","n","k">>,
       <<"s","t","y","l","e">> >>

is_dangerous_pi(pi_content) ==
    LET pi_lower == lower(pi_content)
    IN  \E k \in 1..Len(DANGEROUS_PI_PATTERNS) :
            contains(pi_lower, <<"<", "?">> \o DANGEROUS_PI_PATTERNS[k])

\* tag_name.lower().split()[0] if tag_name else '' (split()[0] of a blank name
\* raises IndexError; the tokenizer never yields a blank tag name).
is_dangerous_tag(tag_name) ==
    LET tag_lower == IF tag_name = <<>> THEN <<>> ELSE FirstWord(lower(tag_name))
    IN  \E k \in 1..Len(DANGEROUS_TAGS) : DANGEROUS_TAGS[k] = tag_lower

contains_external_entity(doctype) ==
    LET doctype_upper == upper(doctype)
    IN  \/ contains(doctype_upper, <<"S","Y","S","T","E","M">>)
        \/ contains(doctype_upper, <<"P","U","B","L","I","C">>)

should_strip_dangerous_pi(config, pi_content) ==
    config.strip_dangerous_pis /\ is_dangerous_pi(pi_content)

\* a filter that strips a dangerous tag whatever the policy: not the code's
StripWhateverPolicy(config, tag_name) == is_dangerous_tag(tag_name)

should_strip_dangerous_tag(config, tag_name) ==
    config.strip_dangerous_tags /\ is_dangerous_tag(tag_name)

-----------------------------------------------------------------------------
(* XMLRepairEngine.escape_entities and escape_attribute_value.  The source *)
(* sets every valid entity reference aside as "\x00ENTITY<n>\x00", escapes *)
(* what is left and puts the references back; NUL stands for "\x00".       *)

NUL == "\\x00"

HexDigits == Digits \cup {"a","b","c","d","e","f","A","B","C","D","E","F"}

NamedEntities ==
    << <<"l","t">>, <<"g","t">>, <<"a","m","p">>, <<"q","u","o","t">>,
       <<"a","p","o","s">> >>

RECURSIVE SkipIn(_, _, _)
SkipIn(s, k, class) == IF k < Len(s) /\ At(s, k) \in class THEN SkipIn(s, k + 1, class) ELSE k

\* The offset just past a match of valid_entity_pattern at offset k, or -1:
\* &(?:lt|gt|amp|quot|apos|#\d+|#x[0-9a-fA-F]+);
EntityEnd(s, k) ==
    IF ~(k < Len(s) /\ At(s, k) = "&") THEN -1
    ELSE LET named == {n \in 1..Len(NamedEntities) :
                          Slice(s, k + 1, k + 2 + Len(NamedEntities[n]))
                              = NamedEntities[n] \o <<";">>}
             dec == SkipIn(s, k + 2, Digits)
             hex == SkipIn(s, k + 3, HexDigits)
         IN  IF named # {}
             THEN k + 2 + Len(NamedEntities[CHOOSE n \in named : TRUE])
             ELSE IF k + 1 < Len(s) /\ At(s, k + 1) = "#" /\ dec > k + 2
                     /\ dec < Len(s) /\ At(s, dec) = ";"
             THEN dec + 1
             ELSE IF k + 2 < Len(s) /\ At(s, k + 1) = "#" /\ At(s, k + 2) = "x"
                     /\ hex > k + 3 /\ hex < Len(s) /\ At(s, hex) = ";"
             THEN hex + 1
             ELSE -1

RECURSIVE Decimal(_)
Decimal(n) ==
    LET d == <<"0","1","2","3","4","5","6","7","8","9">>[(n % 10) + 1]
    IN  IF n < 10 THEN <<d>> ELSE Append(Decimal(n \div 10), d)

Placeholder(n) == <<NUL, "E","N","T","I","T","Y">> \o Decimal(n) \o <<NUL>>

\* re.sub(valid_entity_pattern, save_entity, text): [text, entities]
RECURSIVE SaveEntities(_, _, _, _)
SaveEntities(s, k, out, entities) ==
    IF k >= Len(s) THEN [text |-> out, entities |-> entities]
    ELSE LET Saved(e) ==
                 IF e # -1
                 THEN SaveEntities(s, e, out \o Placeholder(Len(entities)),
                                   Append(entities, Slice(s, k, e)))
                 ELSE SaveEntities(s, k + 1, Append(out, At(s, k)), entities)
         IN  Saved(EntityEnd(s, k))

RECURSIVE RestoreEntities(_, _, _)
RestoreEntities(text, entities, n) ==
    IF n >= Len(entities) THEN text
    ELSE RestoreEntities(replace(text, Placeholder(n), At(entities, n)), entities, n + 1)

Amp == <<"&","a","m","p",";">>
Lt == <<"&","l","t",";">>
Gt == <<"&","g","t",";">>
Quot == <<"&","q","u","o","t",";">>
Apos == <<"&","a","p","o","s",";">>

\* an escaper that leaves "<" and ">" alone: not the code's
EscapeAmpOnly(text) == replace(text, <<"&">>, Amp)

EscapeSpecials(text) == replace(replace(replace(text, <<"&">>, Amp), <<"<">>, Lt), <<">">>, Gt)

escape_entities(text) ==
    LET Escaped(saved) == RestoreEntities(EscapeSpecials(saved.text), saved.entities, 0)
    IN  Escaped(SaveEntities(text, 0, <<>>, <<>>))

escape_attribute_value(value, quote_char) ==
    LET Quoted(escaped) == IF quote_char = "\"" THEN replace(escaped, <<"\"">>, Quot)
                           ELSE replace(escaped, <<"'">>, Apos)
        Escaped(saved) == RestoreEntities(Quoted(EscapeSpecials(saved.text)), saved.entities, 0)
    IN  Escaped(SaveEntities(value, 0, <<>>, <<>>))

-----------------------------------------------------------------------------
(* XMLRepairEngine.fix_malformed_attributes.                               *)

AttrNameChars == LowerLetters \cup UpperLetters \cup Digits \cup {"_", "-", ":"}

Quotes == {"\"", "'"}

\* The scan of an unquoted value from offset k: stops at whitespace that is
\* followed by a word= pattern, or at the end of the content.
\* a scan of an unquoted value that always runs to the end: not the code's
ToEnd(content, k) == Len(content)

RECURSIVE UnquotedEnd(_, _)
UnquotedEnd(content, k) ==
    IF k >= Len(content) THEN k
    ELSE LET j == SkipSpace(content, k)
             w == SkipIn(content, j, AttrNameChars)
         IN  IF isspace(At(content, k)) /\ j < Len(content)
                /\ w < Len(content) /\ At(content, w) = "="
             THEN k
             ELSE UnquotedEnd(content, k + 1)

RECURSIVE SkipUntil(_, _, _)
SkipUntil(s, k, c) == IF k < Len(s) /\ At(s, k) # c THEN SkipUntil(s, k + 1, c) ELSE k

\* The attribute loop of fix_malformed_attributes from offset k0; out is
\* "".join(result) and seen_attrs the lowercased names already kept.
RECURSIVE AttrLoop(_, _, _, _)
AttrLoop(content, k0, out, seen_attrs) ==
    LET attr_start == SkipSpace(content, k0)
        Attribute(name_end) ==
            LET attr_name == Slice(content, attr_start, name_end)
                v == name_end + 1
                quoted == v < Len(content) /\ At(content, v) \in Quotes
                quote_char == IF quoted THEN At(content, v) ELSE "\""
                Value(value_end) ==
                    LET attr_value == IF quoted THEN Slice(content, v + 1, value_end)
                                      ELSE strip(Slice(content, v, value_end))
                        next == IF quoted /\ value_end < Len(content) THEN value_end + 1
                                ELSE value_end
                    IN  IF lower(attr_name) \in seen_attrs
                        THEN AttrLoop(content, next, out, seen_attrs)
                        ELSE IF v >= Len(content)
                        THEN out \o <<" ">> \o attr_name \o <<"=", "\"">>
                        ELSE AttrLoop(content, next,
                                      out \o <<" ">> \o attr_name \o <<"=", quote_char>>
                                          \o escape_attribute_value(attr_value, quote_char)
                                          \o <<quote_char>>,
                                      seen_attrs \cup {lower(attr_name)})
            IN  IF name_end >= Len(content) \/ At(content, name_end) # "="
                THEN out \o <<" ">> \o Slice(content, attr_start, Len(content))
                ELSE Value(IF quoted THEN SkipUntil(content, v + 1, quote_char)
                           ELSE UnquotedEnd(content, v))
    IN  IF k0 >= Len(content) \/ attr_start >= Len(content) THEN out
        ELSE Attribute(SkipIn(content, attr_start, AttrNameChars))

\* a repair that returns the tag content as it came: not the code's
Unrepaired(tag_content) == tag_content

fix_malformed_attributes(tag_content) ==
    LET content == strip(tag_content)
        name_end == SkipNonSpace(content, 0)
    IN  IF name_end >= Len(content) THEN content
        ELSE AttrLoop(content, SkipSpace(content, name_end),
                      Slice(content, 0, name_end), {})

\* attribute_parser.fix_malformed_attributes returns the same text together
\* with the actions it logged: one DUPLICATE_ATTRIBUTE for each dropped
\* duplicate and one MALFORMED_ATTRIBUTE for each unquoted value it quoted.
RepairAction(repair_type, attr_name) == [repair_type |-> repair_type, attribute |-> attr_name]

RECURSIVE AttrActions(_, _, _)
AttrActions(content, k0, seen_attrs) ==
    LET attr_start == SkipSpace(content, k0)
        Attribute(name_end) ==
            LET attr_name == Slice(content, attr_start, name_end)
                v == name_end + 1
                quoted == v < Len(content) /\ At(content, v) \in Quotes
                Value(value_end) ==
                    LET next == IF quoted /\ value_end < Len(content) THEN value_end + 1
                                ELSE value_end
                    IN  IF lower(attr_name) \in seen_attrs
                        THEN <<RepairAction("DUPLICATE_ATTRIBUTE", lower(attr_name))>>
                             \o AttrActions(content, next, seen_attrs)
                        ELSE IF v >= Len(content) THEN <<>>
                        ELSE (IF quoted THEN <<>>
                              ELSE <<RepairAction("MALFORMED_ATTRIBUTE", attr_name)>>)
                             \o AttrActions(content, next, seen_attrs \cup {lower(attr_name)})
            IN  IF name_end >= Len(content) \/ At(content, name_end) # "="
                THEN <<>>
                ELSE Value(IF quoted THEN SkipUntil(content, v + 1, At(content, v))
                           ELSE UnquotedEnd(content, v))
    IN  IF k0 >= Len(content) \/ attr_start >= Len(content) THEN <<>>
        ELSE Attribute(SkipIn(content, attr_start, AttrNameChars))

fix_malformed_attributes_actions(tag_content) ==
    LET content == strip(tag_content)
        name_end == SkipNonSpace(content, 0)
    IN  IF name_end >= Len(content) THEN <<>>
        ELSE AttrActions(content, SkipSpace(content, name_end), {})

-----------------------------------------------------------------------------
(* XMLRepairEngine.tokenize.  A token is [type, content, position].        *)

XMLToken(token_type, content, position) ==
    [type |-> token_type, content |-> content, position |-> position]

\* Valid tag start characters: letters, _, :, /, ?, !
IsTagStart(c) == isalpha(c) \/ c \in {"_", ":", "/", "!", "?"}

\* a text scan that does not move: not the code's
Stay(s, k) == k

\* a text scan that runs to the end of the input: not the code's
SwallowRest(s, k) == Len(s)

\* The text scan of a '<' that starts no tag: up to the next '<' that is the
\* last character or is followed by a tag start character.
RECURSIVE LiteralLtEnd(_, _)
LiteralLtEnd(s, k) ==
    IF k < Len(s) /\ (At(s, k) # "<" \/ (k + 1 < Len(s) /\ ~IsTagStart(At(s, k + 1))))
    THEN LiteralLtEnd(s, k + 1)
    ELSE k

\* The DOCTYPE scan from offset k: the offset just past the first '>' met
\* while in_bracket is false, or the end of the input.
RECURSIVE DoctypeEnd(_, _, _)
DoctypeEnd(s, k, in_bracket) ==
    IF k >= Len(s) THEN k
    ELSE IF At(s, k) = "[" THEN DoctypeEnd(s, k + 1, TRUE)
    ELSE IF At(s, k) = "]" THEN DoctypeEnd(s, k + 1, FALSE)
    ELSE IF At(s, k) = ">" /\ ~in_bracket THEN k + 1
    ELSE DoctypeEnd(s, k + 1, in_bracket)

\* The regular tag scan from offset k: the offset just past the first '>'
\* outside quotes, or the end of the input; quote_char is "" outside quotes.
RECURSIVE TagEnd(_, _, _)
TagEnd(s, k, quote_char) ==
    IF k >= Len(s) THEN k
    ELSE IF quote_char = ""
         THEN IF At(s, k) \in Quotes THEN TagEnd(s, k + 1, At(s, k))
              ELSE IF At(s, k) = ">" THEN k + 1
              ELSE TagEnd(s, k + 1, "")
         ELSE IF At(s, k) = quote_char THEN TagEnd(s, k + 1, "")
              ELSE TagEnd(s, k + 1, quote_char)

\* A regular tag at offset k.
RegularTagStep(s, k) ==
    LET tag_end == TagEnd(s, k + 1, "")
        tag_content == Slice(s, k, tag_end)
        complete == endswith(tag_content, <<">">>)
        closing == complete /\ startswith(tag_content, <<"<", "/">>)
        self_closing == complete /\ ~closing /\ endswith(tag_content, <<"/", ">">>)
        inner == IF ~complete THEN Slice(s, k + 1, Len(s))
                 ELSE IF self_closing THEN Slice(tag_content, 1, Len(tag_content) - 2)
                 ELSE Slice(tag_content, 1, Len(tag_content) - 1)
        Tokens(tag_content_inner) ==
            IF self_closing THEN <<XMLToken("self_closing_tag", tag_content_inner, k)>>
            ELSE <<XMLToken(IF complete THEN "open_tag" ELSE "incomplete_tag",
                            tag_content_inner, k),
                   XMLToken("tag_name", FirstWord(tag_content_inner), k)>>
    IN  IF closing
        THEN [i |-> tag_end, brk |-> FALSE,
              toks |-> <<XMLToken("close_tag",
                                  strip(Slice(tag_content, 2, Len(tag_content) - 1)), k)>>]
        ELSE [i |-> IF complete THEN tag_end ELSE k, brk |-> ~complete,
              toks |-> IF ~complete /\ strip(inner) = <<>> THEN <<>>
                       ELSE Tokens(fix_malformed_attributes(strip(inner)))]

\* One iteration of the while loop of tokenize at offset k (k < Len(s)):
\* the tokens it appends, the next offset, and whether it leaves the loop.
\* An unterminated comment or CDATA section falls through to the regular
\* tag scan (the prefixes "<!--", "<![CDATA[" and "<!DOCTYPE" exclude one
\* another).
TokStep(s, k) ==
    LET pi_end == find(s, <<"?", ">">>, k + 2)
        Literal(lit_end) ==
            [i |-> lit_end, brk |-> FALSE,
             toks |-> IF lit_end > k THEN <<XMLToken("text", Slice(s, k, lit_end), k)>>
                      ELSE <<>>]
        Through(type, end) ==
            [i |-> end, brk |-> FALSE, toks |-> <<XMLToken(type, Slice(s, k, end), k)>>]
        TextRun(text_end) ==
            LET text_content == Slice(s, k, text_end)
            IN  [i |-> text_end, brk |-> FALSE,
                 toks |-> IF strip(text_content) # <<>>
                          THEN <<XMLToken("text", text_content, k)>>
                          ELSE IF text_content # <<>>
                          THEN <<XMLToken("whitespace", text_content, k)>>
                          ELSE <<>>]
    IN  IF At(s, k) # "<" THEN TextRun(SkipUntil(s, k, "<"))
        ELSE IF k + 1 >= Len(s)
        THEN [i |-> k + 1, brk |-> FALSE, toks |-> <<XMLToken("text", <<"<">>, k)>>]
        ELSE IF ~IsTagStart(At(s, k + 1)) THEN Literal(LiteralLtEnd(s, k))
        ELSE IF Slice(s, k, k + 2) = <<"<", "?">>
        THEN IF pi_end # -1 THEN Through("processing_instruction", pi_end + 2)
             ELSE [i |-> k, brk |-> TRUE,
                   toks |-> <<XMLToken("incomplete_tag", Slice(s, k + 1, Len(s)), k)>>]
        ELSE IF /\ Slice(s, k, k + 4) = <<"<", "!", "-", "-">>
                /\ find(s, <<"-", "-", ">">>, k + 4) # -1
        THEN Through("comment", find(s, <<"-", "-", ">">>, k + 4) + 3)
        ELSE IF /\ Slice(s, k, k + 9) = <<"<", "!", "[", "C", "D", "A", "T", "A", "[">>
                /\ find(s, <<"]", "]", ">">>, k + 9) # -1
        THEN Through("cdata", find(s, <<"]", "]", ">">>, k + 9) + 3)
        ELSE IF upper(Slice(s, k, k + 9)) = <<"<", "!", "D", "O", "C", "T", "Y", "P", "E">>
        THEN Through("doctype", DoctypeEnd(s, k + 9, FALSE))
        ELSE RegularTagStep(s, k)

RECURSIVE TokLoop(_, _, _)
TokLoop(s, k, toks) ==
    LET After(step) == IF step.brk THEN toks \o step.toks
                       ELSE TokLoop(s, step.i, toks \o step.toks)
    IN  IF k >= Len(s) THEN toks ELSE After(TokStep(s, k))

tokenize(s) == TokLoop(s, 0, <<>>)

-----------------------------------------------------------------------------
(* XMLSecurityFilter.strip_external_entities_from_text:                    *)
(* re.sub(r'<!DOCTYPE(?:[^>\[]|\[.*?\])*>', '', text, DOTALL | IGNORECASE) *)

RECURSIVE DoctypeBody(_, _)
RECURSIVE DoctypeBracket(_, _)

\* The offset just past the match of (?:[^>\[]|\[.*?\])*> tried at offset q,
\* or -1: the star is greedy, the bracket group lazy, as the regex engine
\* tries them.
DoctypeBody(s, q) ==
    IF q >= Len(s) THEN -1
    ELSE IF At(s, q) = ">" THEN q + 1
    ELSE IF At(s, q) = "[" THEN DoctypeBracket(s, find(s, <<"]">>, q + 1))
    ELSE DoctypeBody(s, q + 1)

\* \[.*?\] closed at offset j (-1: no ']' left), then the rest of the body;
\* on failure the lazy .*? is extended to the next ']'.
DoctypeBracket(s, j) ==
    LET Rest(r) == IF r # -1 THEN r ELSE DoctypeBracket(s, find(s, <<"]">>, j + 1))
    IN  IF j = -1 THEN -1 ELSE Rest(DoctypeBody(s, j + 1))

DoctypeMatchEnd(s, p) ==
    IF upper(Slice(s, p, p + 9)) = <<"<", "!", "D", "O", "C", "T", "Y", "P", "E">>
    THEN DoctypeBody(s, p + 9)
    ELSE -1

RECURSIVE RemoveDoctypes(_, _, _)
RemoveDoctypes(s, p, out) ==
    LET Skip(e) == IF e # -1 THEN RemoveDoctypes(s, e, out)
                   ELSE RemoveDoctypes(s, p + 1, Append(out, At(s, p)))
    IN  IF p >= Len(s) THEN out ELSE Skip(DoctypeMatchEnd(s, p))

strip_external_entities_from_text(config, text) ==
    IF ~config.strip_external_entities THEN text ELSE RemoveDoctypes(text, 0, <<>>)

-----------------------------------------------------------------------------
(* XMLRepairEngine.extract_xml_content.                                    *)

\* The alternatives of end_patterns[0] and end_patterns[1], lowercased (the
\* search is IGNORECASE); the words of a phrase are separated by \s+.
EndPhrases0 ==
    <<
       <<<<"h","o","p","e">>, <<"t","h","i","s">>, <<"h","e","l","p","s">>>>,
       <<<<"l","e","t">>, <<"m","e">>, <<"k","n","o","w">>>>,
       <<<<"t","h","a","t">>, <<"s","h","o","u","l","d">>>>
    >>

EndPhrases1 ==
    <<
       <<<<"p","l","e","a","s","e">>, <<"l","e","t">>, <<"m","e">>, <<"k","n","o","w">>>>,
       <<<<"i","s">>, <<"t","h","i","s">>, <<"w","h","a","t">>>>
    >>

RECURSIVE PhraseAt(_, _, _)
PhraseAt(t, q, words) ==
    IF words = <<>> THEN TRUE
    ELSE /\ lower(Slice(t, q, q + Len(Head(words)))) = Head(words)
         /\ \/ Len(words) = 1
            \/ LET r == q + Len(Head(words))
               IN  /\ r < Len(t) /\ isspace(At(t, r))
                   /\ PhraseAt(t, SkipSpace(t, r), Tail(words))

\* r"\s+(phrase|phrase|...)" matches at offset p
PhrasePatternAt(t, p, phrases) ==
    /\ p < Len(t) /\ isspace(At(t, p))
    /\ \E n \in 1..Len(phrases) : PhraseAt(t, SkipSpace(t, p), phrases[n])

\* r"\s*\n\s*[A-Z][^<]*$" (IGNORECASE) matches at offset p
SentencePatternAt(t, p) ==
    LET l == SkipSpace(t, p)
    IN  /\ l < Len(t) /\ isalpha(At(t, l))
        /\ \E n \in p..(l - 1) : At(t, n) = "\n"
        /\ find(t, <<"<">>, l + 1) = -1

\* match.start() of re.search(end_patterns[n], t), or -1
EndPatternStart(t, n) ==
    LET First(hits) == IF hits = {} THEN -1 ELSE CHOOSE p \in hits : \A q \in hits : p <= q
    IN  First({p \in 0..(Len(t) - 1) :
                  IF n = 0 THEN PhrasePatternAt(t, p, EndPhrases0)
                  ELSE IF n = 1 THEN PhrasePatternAt(t, p, EndPhrases1)
                  ELSE SentencePatternAt(t, p)})

\* for i in range(potential_end - 1, xml_start, -1): if text[i] == ">"
RECURSIVE LastGtBefore(_, _, _)
LastGtBefore(text, k, xml_start) ==
    IF k <= xml_start THEN -1
    ELSE IF At(text, k) = ">" THEN k
    ELSE LastGtBefore(text, k - 1, xml_start)

RECURSIVE FirstXmlStart(_, _)
FirstXmlStart(text, k) ==
    IF k >= Len(text) THEN -1
    ELSE IF At(text, k) = "<" /\ k + 1 < Len(text) /\ IsTagStart(At(text, k + 1)) THEN k
    ELSE FirstXmlStart(text, k + 1)

extract_xml_content(config, raw) ==
    LET Extract(text) ==
            LET From(xml_start) ==
                    LET End(m) ==
                            LET Cut(gt) ==
                                    Slice(text, xml_start,
                                          IF m # -1 /\ gt # -1 THEN gt + 1 ELSE Len(text))
                            IN  Cut(LastGtBefore(text, xml_start + m - 1, xml_start))
                        Search(tail) ==
                            LET Second(m1) == IF m1 # -1 THEN m1 ELSE EndPatternStart(tail, 2)
                                Primary(m0) ==
                                    IF m0 # -1 THEN m0 ELSE Second(EndPatternStart(tail, 1))
                            IN  Primary(EndPatternStart(tail, 0))
                    IN  IF xml_start = -1 THEN text
                        ELSE End(Search(Slice(text, xml_start, Len(text))))
            IN  From(IF startswith(text, <<"<", "?", "x", "m", "l">>) THEN 0
                     ELSE FirstXmlStart(text, 0))
    IN  Extract(strip_external_entities_from_text(config, strip(raw)))

-----------------------------------------------------------------------------
(* Namespace extraction and injection, CDATA wrapping.                     *)

COMMON_NAMESPACES ==
    <<
       <<<<"s","o","a","p">>,
         <<"h","t","t","p",":","/","/","s","c","h","e","m","a","s",".","x",
         "m","l","s","o","a","p",".","o","r","g","/","s","o","a","p","/","e",
         "n","v","e","l","o","p","e","/">>>>,
       <<<<"x","s","i">>,
         <<"h","t","t","p",":","/","/","w","w","w",".","w","3",".","o","r",
         "g","/","2","0","0","1","/","X","M","L","S","c","h","e","m","a","-",
         "i","n","s","t","a","n","c","e">>>>,
       <<<<"x","s","d">>,
         <<"h","t","t","p",":","/","/","w","w","w",".","w","3",".","o","r",
         "g","/","2","0","0","1","/","X","M","L","S","c","h","e","m","a">>>>,
       <<<<"x","s">>,
         <<"h","t","t","p",":","/","/","w","w","w",".","w","3",".","o","r",
         "g","/","2","0","0","1","/","X","M","L","S","c","h","e","m","a">>>>
    >>

IsCommonPrefix(prefix) == \E n \in 1..Len(COMMON_NAMESPACES) : COMMON_NAMESPACES[n][1] = prefix

NamespaceUri(prefix) ==
    COMMON_NAMESPACES[CHOOSE n \in 1..Len(COMMON_NAMESPACES) : COMMON_NAMESPACES[n][1] = prefix][2]

\* The prefix of a match of r"</?([a-zA-Z][a-zA-Z0-9]*):([a-zA-Z][a-zA-Z0-9]*)"
\* at offset p, or <<>> when there is none.
PrefixAt(xml, p) ==
    LET a == IF p + 1 < Len(xml) /\ At(xml, p + 1) = "/" THEN p + 2 ELSE p + 1
        b == SkipIn(xml, a, LowerLetters \cup UpperLetters \cup Digits)
    IN  IF /\ p < Len(xml) /\ At(xml, p) = "<"
           /\ a < Len(xml) /\ isalpha(At(xml, a))
           /\ b < Len(xml) /\ At(xml, b) = ":"
           /\ b + 1 < Len(xml) /\ isalpha(At(xml, b + 1))
        THEN Slice(xml, a, b)
        ELSE <<>>

RECURSIVE NamespaceScan(_, _, _)
NamespaceScan(xml, p, found) ==
    LET Scan(prefix) ==
            IF prefix # <<>> /\ IsCommonPrefix(prefix)
               /\ ~(\E n \in 1..Len(found) : found[n] = prefix)
            THEN NamespaceScan(xml, p + 1, Append(found, prefix))
            ELSE NamespaceScan(xml, p + 1, found)
    IN  IF p >= Len(xml) THEN found ELSE Scan(PrefixAt(xml, p))

\* The prefixes of the dict extract_namespaces returns, in insertion order.
extract_namespaces(xml) == NamespaceScan(xml, 0, <<>>)

\* ' '.join(xmlns_decls)
RECURSIVE XmlnsDecls(_)
XmlnsDecls(ns) ==
    IF ns = <<>> THEN <<>>
    ELSE <<"x","m","l","n","s",":">> \o Head(ns) \o <<"=", "\"">> \o NamespaceUri(Head(ns))
         \o <<"\"">> \o (IF Len(ns) > 1 THEN <<" ">> \o XmlnsDecls(Tail(ns)) ELSE <<>>)

\* root_tag.split(None, 1) is [tag_name] or [tag_name, rest]
inject_namespace_declarations(root_tag, ns) ==
    LET a == SkipSpace(root_tag, 0)
        b == SkipNonSpace(root_tag, a)
        c == SkipSpace(root_tag, b)
        tag_name == Slice(root_tag, a, b)
    IN  IF ns = <<>> THEN root_tag
        ELSE IF c < Len(root_tag)
        THEN tag_name \o <<" ">> \o XmlnsDecls(ns) \o <<" ">> \o Slice(root_tag, c, Len(root_tag))
        ELSE tag_name \o <<" ">> \o XmlnsDecls(ns)

CDATA_CANDIDATE_TAGS ==
    {<<"c","o","d","e">>, <<"s","c","r","i","p","t">>, <<"p","r","e">>,
        <<"s","o","u","r","c","e">>, <<"s","q","l">>, <<"q","u","e","r","y">>,
        <<"f","o","r","m","u","l","a">>, <<"e","x","p","r","e","s","s","i",
       "o","n">>, <<"x","p","a","t","h">>, <<"r","e","g","e","x">>}

is_cdata_candidate_tag(tag_name) == lower(tag_name) \in CDATA_CANDIDATE_TAGS

content_needs_cdata(content) ==
    /\ strip(content) # <<>>
    /\ \E n \in 1..Len(content) : content[n] \in {"<", ">", "&"}

CdataOpen == <<"<", "!", "[", "C", "D", "A", "T", "A", "[">>

CdataClose == <<"]", "]", ">">>

\* a section around the content as it is: not the code's
UnsplitWrap(content) == CdataOpen \o content \o CdataClose

wrap_in_cdata(content) ==
    CdataOpen \o replace(content, CdataClose, <<"]", "]">> \o CdataClose \o CdataOpen \o <<">">>)
        \o CdataClose

-----------------------------------------------------------------------------
(* The rebuild pass of XMLRepairEngine.repair_xml.                         *)
(*                                                                         *)
(* result is the list of pieces the loop appends; each piece is recorded   *)
(* with the branch of the loop that appended it:                           *)
(*   [by |-> <branch>, text |-> <the appended string>]                     *)
(* and "".join(result) is the concatenation of the texts.                  *)

Piece(by, text) == [by |-> by, text |-> text]

RECURSIVE JoinPieces(_)
JoinPieces(pieces) ==
    IF pieces = <<>> THEN <<>> ELSE Head(pieces).text \o JoinPieces(Tail(pieces))

\* flush_text_buffer(): result afterwards (the caller empties text_buffer)
FlushTextBuffer(config, res, buf, in_cdata) ==
    LET Flushed(combined_text) ==
            IF in_cdata /\ config.auto_wrap_cdata /\ content_needs_cdata(combined_text)
            THEN Append(res, Piece("flush", wrap_in_cdata(combined_text)))
            ELSE Append(res, Piece("flush", escape_entities(combined_text)))
    IN  IF buf = <<>> THEN res ELSE Flushed(Join(buf))

\* The same closing tags in the order the entries were opened (bottom first):
\* not what the code emits.
ClosingTagsBottomFirst(stack, stack_index, by) ==
    [k \in 1..(Len(stack) - stack_index) |->
        Piece(by, <<"<", "/">> \o stack[stack_index + k][1] \o <<">">>)]

\* The closing tags of the stack entries above index stack_index, top first:
\* while len(tag_stack) > stack_index: tags_to_close.append(tag_stack.pop()[0])
RECURSIVE ClosingTags(_, _, _)
ClosingTags(stack, stack_index, by) ==
    IF Len(stack) <= stack_index THEN <<>>
    ELSE <<Piece(by, <<"<", "/">> \o stack[Len(stack)][1] \o <<">">>)>>
         \o ClosingTags(SubSeq(stack, 1, Len(stack) - 1), stack_index, by)

\* dangerous_tag_stack.pop(idx) for the first idx whose lowercase name is name
\* only the entry on top of the stack is compared: not what the code does
TopOnlyIndex(dstack, name, idx) ==
    IF dstack # <<>> /\ dstack[Len(dstack)][2] = name THEN Len(dstack) - 1 ELSE -1

RECURSIVE DangerousIndex(_, _, _)
DangerousIndex(dstack, name, idx) ==
    IF idx >= Len(dstack) THEN -1
    ELSE IF At(dstack, idx)[2] = name THEN idx
    ELSE DangerousIndex(dstack, name, idx + 1)

RemoveAt(seq, idx) == Slice(seq, 0, idx) \o Slice(seq, idx + 1, Len(seq))

HasTagName(toks, k) == k + 1 < Len(toks) /\ At(toks, k + 1).type = "tag_name"

\* "<" + content + ">" of an open or incomplete tag, with the namespace
\* declarations when it is the first one emitted
\* the declarations injected into every tag, first or not: not the code
InjectedAlways(content, first, ns) ==
    <<"<">> \o inject_namespace_declarations(content, ns) \o <<">">>

TagMarkup(content, first, ns) ==
    <<"<">> \o (IF first /\ ns # <<>> THEN inject_namespace_declarations(content, ns)
                ELSE content) \o <<">">>

\* The state of the rebuild loop as a record.
RebuildState(k, res, stack, dstack, first, buf, in_cdata) ==
    [i |-> k, result |-> res, tag_stack |-> stack, dangerous_tag_stack |-> dstack,
     first_open_tag |-> first, text_buffer |-> buf, in_cdata_candidate |-> in_cdata]

OnProcessingInstruction(config, token, st) ==
    IF should_strip_dangerous_pi(config, token.content)
    THEN [st EXCEPT !.i = st.i + 1]
    ELSE [st EXCEPT !.i = st.i + 1,
                    !.result = Append(st.result, Piece("processing_instruction", token.content))]

OnOpenTag(config, toks, ns, token, st) ==
    LET tag_name == IF HasTagName(toks, st.i) THEN At(toks, st.i + 1).content ELSE <<>>
        skip == IF HasTagName(toks, st.i) THEN 2 ELSE 1
        Opened(flushed) ==
            IF tag_name # <<>> /\ should_strip_dangerous_tag(config, tag_name)
            THEN [st EXCEPT !.i = st.i + skip, !.result = flushed, !.text_buffer = <<>>,
                            !.dangerous_tag_stack = Append(st.dangerous_tag_stack,
                                                           <<tag_name, lower(tag_name)>>)]
            ELSE [st EXCEPT !.i = st.i + (IF tag_name # <<>> THEN 2 ELSE 1),
                            !.result = Append(flushed, Piece("open_tag",
                                           TagMarkup(token.content, st.first_open_tag, ns))),
                            !.text_buffer = <<>>,
                            !.first_open_tag = FALSE,
                            !.tag_stack = IF tag_name # <<>>
                                          THEN Append(st.tag_stack, <<tag_name, lower(tag_name)>>)
                                          ELSE st.tag_stack,
                            !.in_cdata_candidate = IF tag_name # <<>>
                                                   THEN is_cdata_candidate_tag(tag_name)
                                                   ELSE st.in_cdata_candidate]
    IN  Opened(FlushTextBuffer(config, st.result, st.text_buffer, st.in_cdata_candidate))

OnCloseTag(config, token, st) ==
    LET closing_tag_lower == lower(token.content)
        Closed(flushed, didx, match_result) ==
            IF didx # -1
            THEN [st EXCEPT !.i = st.i + 1, !.result = flushed, !.text_buffer = <<>>,
                            !.in_cdata_candidate = FALSE,
                            !.dangerous_tag_stack = RemoveAt(st.dangerous_tag_stack, didx)]
            ELSE IF match_result.found
            THEN [st EXCEPT !.i = st.i + 1, !.text_buffer = <<>>,
                            !.in_cdata_candidate = FALSE,
                            !.result = flushed \o ClosingTags(st.tag_stack, match_result.index,
                                                             "close_match"),
                            !.tag_stack = Slice(st.tag_stack, 0, match_result.index)]
            ELSE [st EXCEPT !.i = st.i + 1, !.text_buffer = <<>>,
                            !.in_cdata_candidate = FALSE,
                            !.result = Append(flushed, Piece("close_verbatim",
                                              <<"<", "/">> \o token.content \o <<">">>))]
    IN  Closed(FlushTextBuffer(config, st.result, st.text_buffer, st.in_cdata_candidate),
               IF config.strip_dangerous_tags /\ st.dangerous_tag_stack # <<>>
               THEN DangerousIndex(st.dangerous_tag_stack, closing_tag_lower, 0)
               ELSE -1,
               find_best_matching_tag(closing_tag_lower, st.tag_stack, config.match_threshold))

OnSelfClosingTag(config, token, st) ==
    [st EXCEPT !.i = st.i + 1, !.text_buffer = <<>>,
               !.result = Append(FlushTextBuffer(config, st.result, st.text_buffer,
                                                 st.in_cdata_candidate),
                                 Piece("self_closing_tag",
                                       <<"<">> \o token.content \o <<"/", ">">>))]

OnIncompleteTag(config, toks, ns, token, st) ==
    LET has_name == HasTagName(toks, st.i)
        tag_name == IF has_name THEN At(toks, st.i + 1).content ELSE <<>>
    IN  [st EXCEPT !.i = st.i + (IF has_name THEN 2 ELSE 1),
                   !.result = Append(FlushTextBuffer(config, st.result, st.text_buffer,
                                                     st.in_cdata_candidate),
                                     Piece("incomplete_tag",
                                           TagMarkup(token.content, st.first_open_tag, ns))),
                   !.text_buffer = <<>>,
                   !.first_open_tag = FALSE,
                   !.tag_stack = IF has_name
                                 THEN Append(st.tag_stack, <<tag_name, lower(tag_name)>>)
                                 ELSE st.tag_stack]

OnText(config, token, st) ==
    IF st.in_cdata_candidate /\ config.auto_wrap_cdata
    THEN [st EXCEPT !.i = st.i + 1, !.text_buffer = Append(st.text_buffer, token.content)]
    ELSE [st EXCEPT !.i = st.i + 1,
                    !.result = Append(st.result, Piece("text", escape_entities(token.content)))]

OnWhitespace(config, token, st) ==
    IF st.in_cdata_candidate /\ config.auto_wrap_cdata
    THEN [st EXCEPT !.i = st.i + 1, !.text_buffer = Append(st.text_buffer, token.content)]
    ELSE [st EXCEPT !.i = st.i + 1,
                    !.result = Append(st.result, Piece("whitespace", token.content))]

\* doctype, comment and cdata tokens are appended as they are
OnVerbatim(token, st) ==
    [st EXCEPT !.i = st.i + 1, !.result = Append(st.result, Piece(token.type, token.content))]

\* One iteration of "while i < len(tokens)".
RebuildStep(config, toks, ns, st) ==
    LET token == At(toks, st.i)
    IN  CASE token.type = "processing_instruction" -> OnProcessingInstruction(config, token, st)
          [] token.type = "open_tag" -> OnOpenTag(config, toks, ns, token, st)
          [] token.type = "close_tag" -> OnCloseTag(config, token, st)
          [] token.type = "self_closing_tag" -> OnSelfClosingTag(config, token, st)
          [] token.type = "incomplete_tag" -> OnIncompleteTag(config, toks, ns, token, st)
          [] token.type = "text" -> OnText(config, token, st)
          [] token.type = "whitespace" -> OnWhitespace(config, token, st)
          [] token.type \in {"doctype", "comment", "cdata"} -> OnVerbatim(token, st)
          [] OTHER -> [st EXCEPT !.i = st.i + 1]

\* An end of input that flushes the text buffer and closes nothing: not what
\* the code does.
LeaveOpen(config, st) ==
    [st EXCEPT !.result = FlushTextBuffer(config, st.result, st.text_buffer,
                                          st.in_cdata_candidate),
               !.text_buffer = <<>>]

\* After the loop: flush the text buffer, close the remaining open tags.
CloseRemaining(config, st) ==
    [st EXCEPT !.result = FlushTextBuffer(config, st.result, st.text_buffer,
                                          st.in_cdata_candidate)
                              \o ClosingTags(st.tag_stack, 0, "close_remaining"),
               !.text_buffer = <<>>,
               !.tag_stack = <<>>]

-----------------------------------------------------------------------------
(* XMLRepairEngine._wrap_multiple_roots.                                   *)

\* s.replace(old, "", 1)
RemoveFirst(s, old) ==
    LET k == find(s, old, 0)
    IN  IF k = -1 THEN s ELSE Slice(s, 0, k) \o Slice(s, k + Len(old), Len(s))

QuestionXml == <<"<", "?", "x", "m", "l">>

DocumentOpen == <<"<", "d", "o", "c", "u", "m", "e", "n", "t", ">">>

DocumentClose == <<"<", "/", "d", "o", "c", "u", "m", "e", "n", "t", ">">>

\* the loop "for token in tokens" counting root-level elements
RECURSIVE RootScan(_, _, _)
RootScan(toks, k, acc) ==
    IF k >= Len(toks) THEN acc
    ELSE LET token == At(toks, k)
             next ==
                 CASE token.type = "processing_instruction" ->
                          IF startswith(token.content, QuestionXml)
                          THEN [acc EXCEPT !.xml_declaration = token.content]
                          ELSE IF acc.depth = 0
                          THEN [acc EXCEPT !.pis_before_root = Append(@, token.content)]
                          ELSE acc
                   [] token.type \in {"open_tag", "incomplete_tag"} ->
                          [acc EXCEPT !.root_count = IF acc.depth = 0 THEN @ + 1 ELSE @,
                                      !.depth = @ + 1]
                   [] token.type = "close_tag" -> [acc EXCEPT !.depth = @ - 1]
                   [] token.type = "self_closing_tag" ->
                          [acc EXCEPT !.root_count = IF acc.depth = 0 THEN @ + 1 ELSE @]
                   [] token.type = "text" /\ acc.depth = 0 ->
                          IF strip(token.content) # <<>>
                          THEN [acc EXCEPT !.has_top_level_text = TRUE]
                          ELSE acc
                   [] OTHER -> acc
         IN  RootScan(toks, k + 1, next)

RECURSIVE RemoveEach(_, _)
RemoveEach(content, pis) ==
    IF pis = <<>> THEN content ELSE RemoveEach(RemoveFirst(content, Head(pis)), Tail(pis))

RECURSIVE JoinLines(_)
JoinLines(pis) == IF pis = <<>> THEN <<>> ELSE Head(pis) \o <<"\n">> \o JoinLines(Tail(pis))

wrap_multiple_roots(xml) ==
    LET Wrapped(acc) ==
            IF acc.root_count <= 1 /\ ~acc.has_top_level_text THEN xml
            ELSE (IF acc.xml_declaration # <<>> THEN acc.xml_declaration \o <<"\n">>
                  ELSE <<>>)
                 \o JoinLines(acc.pis_before_root)
                 \o DocumentOpen
                 \o strip(RemoveEach(IF acc.xml_declaration # <<>>
                                     THEN RemoveFirst(xml, acc.xml_declaration) ELSE xml,
                                     acc.pis_before_root))
                 \o DocumentClose
    IN  Wrapped(RootScan(tokenize(xml), 0,
                         [depth |-> 0, root_count |-> 0, has_top_level_text |-> FALSE,
                          xml_declaration |-> <<>>, pis_before_root |-> <<>>]))

-----------------------------------------------------------------------------
(* XMLRepairEngine.repair_xml as a function of its input.                  *)

\* XMLPreprocessor.preprocess (xenon/preprocessor.py, not among the sources):
\* rewrites tag names that are not valid XML names and malformed namespace
\* syntax, when the options sanitize_invalid_tags and fix_namespace_syntax
\* are on (both are off by default).  Text whose tag names are valid and
\* without namespace prefixes, as all the inputs below are, is unchanged.
preprocess(config, text) == text

InitialRebuildState == RebuildState(0, <<>>, <<>>, <<>>, TRUE, <<>>, FALSE)

RECURSIVE RebuildLoop(_, _, _, _)
RebuildLoop(config, toks, ns, st) ==
    IF st.i >= Len(toks) THEN CloseRemaining(config, st)
    ELSE RebuildLoop(config, toks, ns, RebuildStep(config, toks, ns, st))

\* "".join(result), then the optional multi-root wrapping
Finished(config, res) ==
    LET Wrap(joined) == IF config.wrap_multiple_roots THEN wrap_multiple_roots(joined)
                        ELSE joined
    IN  Wrap(JoinPieces(res))

RepairXml(config, text) ==
    LET Rebuilt(cleaned_xml) ==
            Finished(config, RebuildLoop(config, tokenize(cleaned_xml),
                                         extract_namespaces(cleaned_xml),
                                         InitialRebuildState).result)
    IN  Rebuilt(extract_xml_content(config, preprocess(config, text)))

-----------------------------------------------------------------------------
(* XMLRepairEngine.xml_to_dict.  A Python value is a dict (its items in    *)
(* insertion order), a list or a str.  The stack of _build_dict_from_tokens *)
(* holds references to dicts inside result; here it holds their paths, a   *)
(* path step being the key and, when the dict is an entry of a list under  *)
(* that key, its position in the list (0 when it is the value itself).     *)

PyDict(items) == [kind |-> "dict", items |-> items, text |-> <<>>]

PyList(items) == [kind |-> "list", items |-> items, text |-> <<>>]

PyStr(text) == [kind |-> "str", items |-> <<>>, text |-> text]

Item(key, value) == [key |-> key, value |-> value]

AttributesKey == <<"@attributes">>

TextKey == <<"#text">>

\* the position of the key among the items, or 0
RECURSIVE KeyIndex(_, _, _)
KeyIndex(items, key, n) ==
    IF n > Len(items) THEN 0
    ELSE IF items[n].key = key THEN n
    ELSE KeyIndex(items, key, n + 1)

\* d[key] = value
SetKey(d, key, value) ==
    LET At0(n) == IF n = 0 THEN PyDict(Append(d.items, Item(key, value)))
                  ELSE PyDict([d.items EXCEPT ![n] = Item(key, value)])
    IN  At0(KeyIndex(d.items, key, 1))

\* the value a path leads to from v
RECURSIVE GetAt(_, _)
GetAt(v, path) ==
    LET Child(held) ==
            GetAt(IF Head(path).index = 0 THEN held ELSE held.items[Head(path).index],
                  Tail(path))
    IN  IF path = <<>> THEN v
        ELSE Child(v.items[KeyIndex(v.items, Head(path).key, 1)].value)

\* v with the value a path leads to replaced
RECURSIVE PutAt(_, _, _)
PutAt(v, path, new) ==
    LET Inside(held) ==
            IF Head(path).index = 0 THEN PutAt(held, Tail(path), new)
            ELSE PyList([held.items EXCEPT ![Head(path).index] = PutAt(@, Tail(path), new)])
        Under(n) == PyDict([v.items EXCEPT ![n] = Item(Head(path).key, Inside(v.items[n].value))])
    IN  IF path = <<>> THEN new ELSE Under(KeyIndex(v.items, Head(path).key, 1))

\* str.split()
RECURSIVE Words(_, _)
Words(s, k) ==
    LET From(a) == IF a >= Len(s) THEN <<>>
                   ELSE <<Slice(s, a, SkipNonSpace(s, a))>> \o Words(s, SkipNonSpace(s, a))
    IN  From(SkipSpace(s, k))

\* " ".join(words)
RECURSIVE JoinSpaced(_)
JoinSpaced(words) ==
    IF words = <<>> THEN <<>>
    ELSE IF Len(words) = 1 THEN Head(words)
    ELSE Head(words) \o <<" ">> \o JoinSpaced(Tail(words))

WordChars == LowerLetters \cup UpperLetters \cup Digits \cup {"_"}

RECURSIVE SkipNonQuote(_, _)
SkipNonQuote(s, k) == IF k < Len(s) /\ At(s, k) \notin Quotes THEN SkipNonQuote(s, k + 1) ELSE k

\* _parse_attributes: re.findall(r'(\w+)=(["\'])([^"\']*?)\2', attr_text)
\* from offset p, each match stored under its name
RECURSIVE ParseAttributes(_, _, _)
ParseAttributes(s, p, attrs) ==
    LET Try(w, e) ==
            IF /\ w > p /\ w + 1 < Len(s) /\ At(s, w) = "=" /\ At(s, w + 1) \in Quotes
               /\ e < Len(s) /\ At(s, e) = At(s, w + 1)
            THEN ParseAttributes(s, e + 1,
                                 SetKey(attrs, Slice(s, p, w), PyStr(Slice(s, w + 2, e))))
            ELSE ParseAttributes(s, p + 1, attrs)
    IN  IF p >= Len(s) THEN attrs
        ELSE Try(SkipIn(s, p, WordChars), SkipNonQuote(s, SkipIn(s, p, WordChars) + 2))

parse_attributes(attr_text) == ParseAttributes(attr_text, 0, PyDict(<<>>))

\* the attributes of a tag whose content splits into parts
TagAttributes(parts) ==
    IF Len(parts) > 1 THEN parse_attributes(JoinSpaced(Tail(parts))) ELSE PyDict(<<>>)

\* current_dict with the element under tag_name: alone when the name is
\* new, else appended to the list there (made of what was there if it was
\* no list); index is the element's position in the list, 0 when alone.
AddElement(current_dict, tag_name, element) ==
    LET Listed(n, items) ==
            [dict |-> PyDict([current_dict.items EXCEPT ![n] = Item(tag_name, PyList(items))]),
             index |-> Len(items)]
        Held(n, held) ==
            Listed(n, IF held.kind = "list" THEN Append(held.items, element)
                      ELSE <<held, element>>)
        At0(n) == IF n = 0
                  THEN [dict |-> PyDict(Append(current_dict.items, Item(tag_name, element))),
                        index |-> 0]
                  ELSE Held(n, current_dict.items[n].value)
    IN  At0(KeyIndex(current_dict.items, tag_name, 1))

InitialBuild ==
    [result |-> PyDict(<<>>), stack |-> <<(<<>>)>>, current_element |-> <<>>,
     text_buffer |-> <<>>]

Top(b) == b.stack[Len(b.stack)]

\* one iteration of the loop of _build_dict_from_tokens
BuildStep(token, b) ==
    LET parts == Words(token.content, 0)
        tag_name == IF parts # <<>> THEN Head(parts) ELSE token.content
        Opened(new_element) ==
            LET Pushed(added) ==
                    [b EXCEPT !.result = PutAt(b.result, Top(b), added.dict),
                              !.stack = Append(@, Top(b) \o <<[key |-> tag_name,
                                                              index |-> added.index]>>),
                              !.current_element = tag_name]
            IN  Pushed(AddElement(GetAt(b.result, Top(b)), tag_name, new_element))
        SelfClosed(element_data) ==
            [b EXCEPT !.result =
                PutAt(b.result, Top(b),
                      AddElement(GetAt(b.result, Top(b)), tag_name, element_data).dict)]
        Texted(text_content) ==
            IF text_content # <<>> /\ Len(b.stack) > 1
            THEN IF GetAt(b.result, Top(b)).items = <<>>
                 THEN PutAt(b.result, b.stack[Len(b.stack) - 1],
                            SetKey(GetAt(b.result, b.stack[Len(b.stack) - 1]),
                                   b.current_element, PyStr(text_content)))
                 ELSE PutAt(b.result, Top(b),
                            SetKey(GetAt(b.result, Top(b)), TextKey, PyStr(text_content)))
            ELSE b.result
        Closed ==
            [b EXCEPT !.result = IF b.text_buffer # <<>> THEN Texted(strip(b.text_buffer))
                                 ELSE b.result,
                      !.text_buffer = <<>>,
                      !.stack = IF Len(b.stack) > 1 THEN SubSeq(@, 1, Len(@) - 1) ELSE @]
    IN  CASE token.type = "open_tag" ->
                 Opened(IF TagAttributes(parts).items # <<>>
                        THEN PyDict(<<Item(AttributesKey, TagAttributes(parts))>>)
                        ELSE PyDict(<<>>))
          [] token.type = "close_tag" -> Closed
          [] token.type = "self_closing_tag" -> SelfClosed(TagAttributes(parts))
          [] token.type = "text" -> [b EXCEPT !.text_buffer = @ \o token.content]
          [] OTHER -> b

RECURSIVE BuildLoop(_, _, _)
BuildLoop(toks, k, b) ==
    IF k > Len(toks) THEN b ELSE BuildLoop(toks, k + 1, BuildStep(toks[k], b))

build_dict_from_tokens(toks) == BuildLoop(toks, 1, InitialBuild).result

xml_to_dict(config, text) == build_dict_from_tokens(tokenize(RepairXml(config, text)))

-----------------------------------------------------------------------------
(* validation.py: the checks run before and after the core.  A Python      *)
(* value is the record of its type name and, for a str, its text; max_size *)
(* is <<>> for None and <<n>> for the integer n.  A call either returns     *)
(* None or raises ValidationError from one of its checks.                   *)

PyValue(type_name, value) == [type |-> type_name, value |-> value]

Accepted == [raises |-> FALSE, check |-> "none"]

ValidationError(check) == [raises |-> TRUE, check |-> check]

\* the same function with the size test written >= instead of >
RejectsAtLimit(xml_input, allow_empty, max_size) ==
    IF xml_input.type # "str" THEN ValidationError("type")
    ELSE IF strip(xml_input.value) = <<>> /\ ~allow_empty THEN ValidationError("empty")
    ELSE IF max_size # <<>> /\ Len(xml_input.value) >= max_size[1]
         THEN ValidationError("size")
    ELSE Accepted

validate_xml_input(xml_input, allow_empty, max_size) ==
    IF xml_input.type # "str" THEN ValidationError("type")
    ELSE IF strip(xml_input.value) = <<>> /\ ~allow_empty THEN ValidationError("empty")
    ELSE IF max_size # <<>> /\ Len(xml_input.value) > max_size[1]
         THEN ValidationError("size")
    ELSE Accepted

validate_repaired_output(repaired_text, original) ==
    IF strip(repaired_text) = <<>> THEN ValidationError("empty")
    ELSE IF ~contains(repaired_text, <<"<">>) \/ ~contains(repaired_text, <<">">>)
         THEN ValidationError("tags")
    ELSE Accepted

-----------------------------------------------------------------------------
(* Configurations and inputs.                                              *)

\* XMLRepairConfig.from_booleans() with its defaults
DefaultConfig ==
    [match_threshold |-> 2, strip_dangerous_pis |-> FALSE,
     strip_external_entities |-> FALSE, strip_dangerous_tags |-> FALSE,
     auto_wrap_cdata |-> FALSE, wrap_multiple_roots |-> FALSE]

\* the security settings of TrustLevel.UNTRUSTED
UntrustedConfig ==
    [DefaultConfig EXCEPT !.strip_dangerous_pis = TRUE,
                          !.strip_external_entities = TRUE,
                          !.strip_dangerous_tags = TRUE]

Configs == {DefaultConfig, UntrustedConfig}

\* An input is a concatenation of at most MaxPieces of these fragments: open,
\* close and self-closing tags (link is on the dangerous-tag list; li is
\* within edit distance 2 of a and of link, link is not within 2 of a), a tag
\* cut off before its ">", text, whitespace, processing instructions (php is
\* on the dangerous list) complete and cut off, and a DOCTYPE complete and
\* cut off.
Fragments ==
    {<<"<", "a", ">">>,
     <<"<", "L", "I", ">">>,
     <<"<", "l", "i", "n", "k", ">">>,
     <<"<", "/", "l", "i", ">">>,
     <<"<", "/", "l", "i", "n", "k", ">">>,
     <<"<", "l", "i", "n", "k", "/", ">">>,
     <<"<", "L", "I">>,
     <<"x">>,
     <<" ">>,
     <<"<", "?", "p", "h", "p", "?", ">">>,
     <<"<", "?", "p", "h", "p">>,
     <<"<", "?", "x", "?", ">">>,
     <<"<", "!", "D", "O", "C", "T", "Y", "P", "E", ">">>,
     <<"<", "!", "D", "O", "C", "T", "Y", "P", "E">>}

MaxPieces == 3

\* the concatenations of at most n of the fragments
RECURSIVE Concatenations(_, _)
Concatenations(fragments, n) ==
    LET Longer(shorter) == shorter \cup {s \o f : s \in shorter, f \in fragments}
    IN  IF n = 0 THEN {<<>>} ELSE Longer(Concatenations(fragments, n - 1))

\* truncated input of the kind an interrupted LLM response produces
TruncatedExample ==
    <<"<", "r", "o", "o", "t", ">", "<", "u", "s", "e", "r", " ", "n", "a", "m", "e",
      "=", "\"", "a", "l", "i", "c", "e", "\"">>

Inputs == Concatenations(Fragments, MaxPieces) \cup {TruncatedExample}

-----------------------------------------------------------------------------
(* One call of XMLRepairEngine.repair_xml, a step at a time.               *)

\* no streaming session is open
StreamIdle ==
    /\ pending = <<>> /\ fed = <<>> /\ buffer = <<>> /\ state = "INITIAL"
    /\ stream_stack = <<>> /\ saw_first_tag = FALSE /\ yielded = <<>>
    /\ final = <<>> /\ spc = "idle" /\ max_nesting_depth = 0 /\ depth = 0

Init ==
    /\ cfg \in Configs
    /\ xml_string \in Inputs
    /\ pc = "start"
    /\ namespaces = <<>> /\ tokens = <<>> /\ i = 0 /\ result = <<>>
    /\ tag_stack = <<>> /\ dangerous_tag_stack = <<>> /\ first_open_tag = TRUE
    /\ text_buffer = <<>> /\ in_cdata_candidate = FALSE /\ repaired = <<>>
    /\ StreamIdle

Current ==
    RebuildState(i, result, tag_stack, dangerous_tag_stack, first_open_tag,
                 text_buffer, in_cdata_candidate)

Becomes(st) ==
    /\ i' = st.i
    /\ result' = st.result
    /\ tag_stack' = st.tag_stack
    /\ dangerous_tag_stack' = st.dangerous_tag_stack
    /\ first_open_tag' = st.first_open_tag
    /\ text_buffer' = st.text_buffer
    /\ in_cdata_candidate' = st.in_cdata_candidate
    /\ UNCHANGED <<cfg, xml_string, pc, namespaces, tokens, repaired>>
    /\ UNCHANGED streamVars

AtToken(types) == pc = "rebuild" /\ i < Len(tokens) /\ At(tokens, i).type \in types

\* preprocess, extract_xml_content, extract_namespaces, tokenize
Prepare ==
    /\ pc = "start"
    /\ LET Tokenized(cleaned_xml) ==
               /\ namespaces' = extract_namespaces(cleaned_xml)
               /\ tokens' = tokenize(cleaned_xml)
       IN  Tokenized(extract_xml_content(cfg, preprocess(cfg, xml_string)))
    /\ pc' = "rebuild"
    /\ UNCHANGED <<cfg, xml_string, i, result, tag_stack, dangerous_tag_stack,
                   first_open_tag, text_buffer, in_cdata_candidate, repaired>>
    /\ UNCHANGED streamVars

ProcessingInstruction ==
    /\ AtToken({"processing_instruction"})
    /\ Becomes(OnProcessingInstruction(cfg, At(tokens, i), Current))

OpenTag ==
    /\ AtToken({"open_tag"})
    /\ Becomes(OnOpenTag(cfg, tokens, namespaces, At(tokens, i), Current))

CloseTag ==
    /\ AtToken({"close_tag"})
    /\ Becomes(OnCloseTag(cfg, At(tokens, i), Current))

SelfClosingTag ==
    /\ AtToken({"self_closing_tag"})
    /\ Becomes(OnSelfClosingTag(cfg, At(tokens, i), Current))

IncompleteTag ==
    /\ AtToken({"incomplete_tag"})
    /\ Becomes(OnIncompleteTag(cfg, tokens, namespaces, At(tokens, i), Current))

Text ==
    /\ AtToken({"text"})
    /\ Becomes(OnText(cfg, At(tokens, i), Current))

Whitespace ==
    /\ AtToken({"whitespace"})
    /\ Becomes(OnWhitespace(cfg, At(tokens, i), Current))

Verbatim ==
    /\ AtToken({"doctype", "comment", "cdata"})
    /\ Becomes(OnVerbatim(At(tokens, i), Current))

\* the end of the token list: flush, close what is still open, join, wrap
EndOfInput ==
    /\ pc = "rebuild"
    /\ i >= Len(tokens)
    /\ LET Returns(st) ==
               /\ result' = st.result
               /\ tag_stack' = st.tag_stack
               /\ text_buffer' = st.text_buffer
               /\ repaired' = Finished(cfg, st.result)
       IN  Returns(CloseRemaining(cfg, Current))
    /\ pc' = "done"
    /\ UNCHANGED <<cfg, xml_string, namespaces, tokens, i, dangerous_tag_stack,
                   first_open_tag, in_cdata_candidate>>
    /\ UNCHANGED streamVars

Next ==
    \/ Prepare
    \/ ProcessingInstruction
    \/ OpenTag
    \/ CloseTag
    \/ SelfClosingTag
    \/ IncompleteTag
    \/ Text
    \/ Whitespace
    \/ Verbatim
    \/ EndOfInput

Spec == Init /\ [][Next]_vars

-----------------------------------------------------------------------------
(* The streaming session of src/poc_streaming.py (StreamingXMLRepairPOC).  *)
(* A session is [buffer, state, tag_stack, saw_first_tag]; tag_stack holds *)
(* tag names.                                                              *)

\* IN_TEXT yields text only once the buffer is longer than this ...
SafetyMargin == 10

\* ... and then keeps this many characters back
KeptTail == 5

\* StreamingXMLRepairPOC._escape_entities
poc_escape_entities(text) ==
    replace(replace(replace(text, <<"&">>, Amp), <<"<">>, Lt), <<">">>, Gt)

\* parts[0] if parts else tag_content, for parts = tag_content.split(None, 1)
PocTagName(tag_str) == FirstWord(strip(Slice(tag_str, 1, Len(tag_str) - 1)))

\* StreamingXMLRepairPOC._repair_tag: the string returned and the tag stack
repair_tag(raw_tag, stack) ==
    LET Repaired(tag_str) ==
            IF startswith(tag_str, <<"<", "?">>) \/ startswith(tag_str, <<"<", "!">>)
            THEN [text |-> tag_str, tag_stack |-> stack]
            ELSE IF endswith(tag_str, <<"/", ">">>)
            THEN [text |-> tag_str, tag_stack |-> stack]
            ELSE IF startswith(tag_str, <<"<", "/">>)
            THEN [text |-> tag_str,
                  tag_stack |-> IF /\ stack # <<>>
                                   /\ stack[Len(stack)]
                                          = strip(Slice(tag_str, 2, Len(tag_str) - 1))
                                THEN SubSeq(stack, 1, Len(stack) - 1)
                                ELSE stack]
            ELSE [text |-> tag_str, tag_stack |-> Append(stack, PocTagName(tag_str))]
    IN  Repaired(strip(raw_tag))

\* StreamingXMLRepairPOC._repair_incomplete_tag
repair_incomplete_tag(raw_tag, stack) ==
    LET Closed(tag_str) ==
            [text |-> tag_str, tag_stack |-> Append(stack, PocTagName(tag_str))]
        Repaired(tag_str) ==
            IF startswith(tag_str, <<"<">>) /\ ~startswith(tag_str, <<"<", "/">>)
            THEN Closed(IF endswith(tag_str, <<">">>) THEN tag_str ELSE tag_str \o <<">">>)
            ELSE [text |-> tag_str, tag_stack |-> stack]
    IN  Repaired(strip(raw_tag))

Session(buf, st, stack, saw) ==
    [buffer |-> buf, state |-> st, tag_stack |-> stack, saw_first_tag |-> saw]

\* The loop "while True" of feed, after self.buffer += chunk: the session
\* at the break and the fragments yielded, in order.
RECURSIVE FeedLoop(_, _)
FeedLoop(sess, out) ==
    LET Initial(idx) ==
            IF idx = -1 THEN [session |-> sess, out |-> out]
            ELSE FeedLoop([sess EXCEPT !.buffer = Slice(sess.buffer, idx, Len(sess.buffer)),
                                       !.state = "IN_TEXT", !.saw_first_tag = TRUE], out)
        InText(idx) ==
            IF idx = -1
            THEN IF Len(sess.buffer) > SafetyMargin
                 THEN [session |-> [sess EXCEPT !.buffer =
                                        Slice(sess.buffer, Len(sess.buffer) - KeptTail,
                                              Len(sess.buffer))],
                       out |-> Append(out, poc_escape_entities(
                                   Slice(sess.buffer, 0, Len(sess.buffer) - KeptTail)))]
                 ELSE [session |-> sess, out |-> out]
            ELSE FeedLoop([sess EXCEPT !.buffer = Slice(sess.buffer, idx, Len(sess.buffer)),
                                       !.state = "IN_TAG"],
                          IF idx > 0
                          THEN Append(out, poc_escape_entities(Slice(sess.buffer, 0, idx)))
                          ELSE out)
        Tagged(end, repaired_tag) ==
            FeedLoop([sess EXCEPT !.buffer = Slice(sess.buffer, end + 1, Len(sess.buffer)),
                                  !.state = "IN_TEXT",
                                  !.tag_stack = repaired_tag.tag_stack],
                     IF repaired_tag.text # <<>> THEN Append(out, repaired_tag.text) ELSE out)
        InTag(end) ==
            IF end = -1 THEN [session |-> sess, out |-> out]
            ELSE Tagged(end, repair_tag(Slice(sess.buffer, 0, end + 1), sess.tag_stack))
    IN  CASE sess.state = "INITIAL" -> Initial(find(sess.buffer, <<"<">>, 0))
          [] sess.state = "IN_TEXT" -> InText(find(sess.buffer, <<"<">>, 0))
          [] sess.state = "IN_TAG" -> InTag(find(sess.buffer, <<">">>, 0))

\* a feed that leaves INITIAL at the first "<" without dropping what came
\* before it: not the code's
FeedKeepingFluff(sess, chunk) ==
    FeedLoop([sess EXCEPT !.buffer = sess.buffer \o chunk,
                          !.state = IF sess.state = "INITIAL"
                                       /\ find(sess.buffer \o chunk, <<"<">>, 0) # -1
                                    THEN "IN_TEXT" ELSE sess.state], <<>>)

\* a feed that yields what is buffered of a tag still open at the end of the
\* chunk: not the code's
FeedFlushingTag(sess, chunk) ==
    LET Flushed(r) ==
            IF r.session.state = "IN_TAG" /\ r.session.buffer # <<>>
            THEN [session |-> [r.session EXCEPT !.buffer = <<>>],
                  out |-> Append(r.out, r.session.buffer)]
            ELSE r
    IN  Flushed(FeedLoop([sess EXCEPT !.buffer = sess.buffer \o chunk], <<>>))

\* StreamingXMLRepairPOC.feed(chunk)
FeedChunk(sess, chunk) == FeedLoop([sess EXCEPT !.buffer = sess.buffer \o chunk], <<>>)

RECURSIVE PocClosingTags(_)
PocClosingTags(stack) ==
    IF stack = <<>> THEN <<>>
    ELSE <<(<<"<", "/">> \o stack[Len(stack)] \o <<">">>)>>
         \o PocClosingTags(SubSeq(stack, 1, Len(stack) - 1))

\* StreamingXMLRepairPOC.finalize(): the fragments yielded, in order
Finalized(sess) ==
    LET Incomplete(repaired_tag) ==
            (IF repaired_tag.text # <<>> THEN <<repaired_tag.text>> ELSE <<>>)
            \o PocClosingTags(repaired_tag.tag_stack)
    IN  IF sess.buffer # <<>> /\ sess.state = "IN_TAG"
        THEN Incomplete(repair_incomplete_tag(sess.buffer, sess.tag_stack))
        ELSE IF sess.buffer # <<>> /\ sess.state = "IN_TEXT" /\ strip(sess.buffer) # <<>>
        THEN <<poc_escape_entities(sess.buffer)>> \o PocClosingTags(sess.tag_stack)
        ELSE PocClosingTags(sess.tag_stack)

\* The whole session run on one chunk: feed(text), then finalize(), joined.
StreamOnce(text) ==
    LET Run(fed_once) == Join(fed_once.out) \o Join(Finalized(fed_once.session))
    IN  Run(FeedChunk(Session(<<>>, "INITIAL", <<>>, FALSE), text))

-----------------------------------------------------------------------------
(* One streaming session: the caller feeds the input in chunks of its      *)
(* choice and then calls finalize.                                         *)

StreamFragments ==
    {<<"<", "a", ">">>,
     <<"<", "/", "a", ">">>,
     <<"<", "/", "b", ">">>,
     <<"<", "b">>,
     <<"<", "/", "a">>,
     <<"x">>,
     <<"0", "1", "2", "3", "4", "5", "6", "7", "8", "9", "a", "b">>,
     <<" ", " ", " ", " ", " ">>,
     <<"&", "a", "m", "p", ";">>}

StreamInputs == {s \in Concatenations(StreamFragments, MaxPieces) : s # <<>>}

\* the caller cuts the next chunk after at most MaxChunk characters, or
\* feeds all that is left
MaxChunk == 2

ChunkSizes(text) == (1..Min2(MaxChunk, Len(text))) \cup {Len(text)}

CoreIdle ==
    /\ pc = "idle"
    /\ namespaces = <<>> /\ tokens = <<>> /\ i = 0 /\ result = <<>>
    /\ tag_stack = <<>> /\ dangerous_tag_stack = <<>> /\ first_open_tag = TRUE
    /\ text_buffer = <<>> /\ in_cdata_candidate = FALSE /\ repaired = <<>>

\* StreamingXMLRepairPOC.__init__
NewSession ==
    /\ buffer = <<>> /\ state = "INITIAL" /\ stream_stack = <<>> /\ saw_first_tag = FALSE
    /\ fed = <<>> /\ yielded = <<>> /\ final = <<>> /\ spc = "open" /\ depth = 0

InitStream ==
    /\ cfg = DefaultConfig
    /\ xml_string \in StreamInputs
    /\ pending = xml_string
    /\ max_nesting_depth = 0
    /\ CoreIdle
    /\ NewSession

Sess == Session(buffer, state, stream_stack, saw_first_tag)

SessionBecomes(sess) ==
    /\ buffer' = sess.buffer
    /\ state' = sess.state
    /\ stream_stack' = sess.tag_stack
    /\ saw_first_tag' = sess.saw_first_tag

Consume(n) ==
    /\ fed' = fed \o Slice(pending, 0, n)
    /\ pending' = Slice(pending, n, Len(pending))

\* one call of feed with the next n characters, iterated to its end
Feed ==
    /\ spc = "open"
    /\ pending # <<>>
    /\ \E n \in ChunkSizes(pending) :
           LET Fed(r) == SessionBecomes(r.session) /\ yielded' = yielded \o Join(r.out)
           IN  Fed(FeedChunk(Sess, Slice(pending, 0, n))) /\ Consume(n)
    /\ UNCHANGED <<final, spc, max_nesting_depth, depth>>
    /\ UNCHANGED coreVars

\* the call of finalize at the end of the stream, iterated to its end
Finalize ==
    /\ spc = "open"
    /\ pending = <<>>
    /\ final' = Finalized(Sess)
    /\ stream_stack' = <<>>
    /\ spc' = "finalized"
    /\ UNCHANGED <<pending, fed, buffer, state, saw_first_tag, yielded,
                   max_nesting_depth, depth>>
    /\ UNCHANGED coreVars

NextStream == Feed \/ Finalize

SpecStream == InitStream /\ [][NextStream]_vars

-----------------------------------------------------------------------------
(* The nesting depth guard of a streaming session.  The guarded session    *)
(* (xenon.streaming.StreamingXMLRepair, used by                            *)
(* examples/04_async_llm_integration.py) tracks the nesting depth of what  *)
(* it yields: each tag open increments it, each close decrements it, and   *)
(* the session fails fatally when the depth exceeds maxNestingDepth.       *)

MaxDepth == 2

\* the yielded fragment is the markup of an opening tag
IsOpenMarkup(frag) ==
    /\ startswith(frag, <<"<">>)
    /\ ~startswith(frag, <<"<", "/">>)
    /\ ~startswith(frag, <<"<", "?">>)
    /\ ~startswith(frag, <<"<", "!">>)
    /\ ~endswith(frag, <<"/", ">">>)

\* the yielded fragment is the markup of a closing tag
IsCloseMarkup(frag) == startswith(frag, <<"<", "/">>)

\* a guard that never trips
NeverExceeds(d, max) == FALSE

\* the depth d is over the limit
ExceedsDepth(d, max) == d > max

\* The fragments of one call passed through the guard from depth d: those
\* yielded, the depth afterwards, and whether the session aborted.
RECURSIVE DepthGuard(_, _, _, _)
DepthGuard(frags, d, max, out) ==
    IF frags = <<>> THEN [out |-> out, depth |-> d, aborted |-> FALSE]
    ELSE IF IsOpenMarkup(Head(frags)) /\ ExceedsDepth(d + 1, max)
    THEN [out |-> out, depth |-> d + 1, aborted |-> TRUE]
    ELSE DepthGuard(Tail(frags),
                    IF IsOpenMarkup(Head(frags)) THEN d + 1
                    ELSE IF IsCloseMarkup(Head(frags)) THEN d - 1
                    ELSE d,
                    max, Append(out, Head(frags)))

GuardFragments ==
    {<<"<", "a", ">">>,
     <<"<", "b", ">">>,
     <<"<", "/", "a", ">">>,
     <<"x">>,
     <<"<", "c", "/", ">">>,
     <<"<", "b">>}

InitGuard ==
    /\ cfg = DefaultConfig
    /\ xml_string \in {s \in Concatenations(GuardFragments, MaxPieces) : s # <<>>}
    /\ pending = xml_string
    /\ max_nesting_depth \in 1..MaxDepth
    /\ CoreIdle
    /\ NewSession

GuardedFeed ==
    /\ spc = "open"
    /\ pending # <<>>
    /\ \E n \in ChunkSizes(pending) :
           LET Guarded(r, g) ==
                   /\ SessionBecomes(r.session)
                   /\ yielded' = yielded \o Join(g.out)
                   /\ depth' = g.depth
                   /\ spc' = IF g.aborted THEN "aborted" ELSE "open"
               Fed(r) == Guarded(r, DepthGuard(r.out, depth, max_nesting_depth, <<>>))
           IN  Fed(FeedChunk(Sess, Slice(pending, 0, n))) /\ Consume(n)
    /\ UNCHANGED <<final, max_nesting_depth>>
    /\ UNCHANGED coreVars

GuardedFinalize ==
    /\ spc = "open"
    /\ pending = <<>>
    /\ LET Guarded(g) ==
               /\ final' = g.out
               /\ depth' = g.depth
               /\ spc' = IF g.aborted THEN "aborted" ELSE "finalized"
       IN  Guarded(DepthGuard(Finalized(Sess), depth, max_nesting_depth, <<>>))
    /\ stream_stack' = <<>>
    /\ UNCHANGED <<pending, fed, buffer, state, saw_first_tag, yielded, max_nesting_depth>>
    /\ UNCHANGED coreVars

\* a call of feed on a session that has aborted fails again: nothing is
\* yielded
FeedAfterAbort ==
    /\ spc = "aborted"
    /\ pending # <<>>
    /\ \E n \in ChunkSizes(pending) : Consume(n)
    /\ UNCHANGED <<buffer, state, stream_stack, saw_first_tag, yielded, final, spc,
                   max_nesting_depth, depth>>
    /\ UNCHANGED coreVars

\* so does the call of finalize
FinalizeAfterAbort ==
    /\ spc = "aborted"
    /\ pending = <<>>
    /\ spc' = "failed"
    /\ UNCHANGED <<pending, fed, buffer, state, stream_stack, saw_first_tag, yielded,
                   final, max_nesting_depth, depth>>
    /\ UNCHANGED coreVars

NextGuard == GuardedFeed \/ GuardedFinalize \/ FeedAfterAbort \/ FinalizeAfterAbort

SpecGuard == InitGuard /\ [][NextGuard]_vars

-----------------------------------------------------------------------------
(* Properties of the rebuild pass (specification Spec).                    *)

\* the name of the tag in the markup of an open or incomplete tag
OpenedName(piece) == FirstWord(Slice(piece.text, 1, Len(piece.text) - 1))

\* the piece is the markup of a tag that was pushed on the open-tag stack
Pushes(piece) ==
    /\ \/ piece.by = "open_tag"
       \/ piece.by = "incomplete_tag" /\ ~startswith(piece.text, <<"<", "?">>)
    /\ OpenedName(piece) # <<>>

\* A walk over the emitted pieces that keeps the names of the tags opened and
\* not yet closed.  A piece of one of the branches in closes has to be the
\* closing tag of the innermost open name, and closes it.
RECURSIVE Nesting(_, _, _)
Nesting(pieces, open, closes) ==
    IF pieces = <<>> THEN [ok |-> TRUE, open |-> open]
    ELSE IF Pushes(Head(pieces))
    THEN Nesting(Tail(pieces), Append(open, OpenedName(Head(pieces))), closes)
    ELSE IF Head(pieces).by \in closes
    THEN IF open # <<>>
            /\ Head(pieces).text = <<"<", "/">> \o open[Len(open)] \o <<">">>
         THEN Nesting(Tail(pieces), SubSeq(open, 1, Len(open) - 1), closes)
         ELSE [ok |-> FALSE, open |-> open]
    ELSE Nesting(Tail(pieces), open, closes)

\* C1 as stated: every close tag in the output, a stray one included, closes
\* the innermost tag still open when it is appended, and when repair_xml
\* returns as many tags were closed as were opened.
EveryCloseNests ==
    LET Balanced(w) == w.ok /\ (pc = "done" => w.open = <<>>)
    IN  Balanced(Nesting(result, <<>>,
                         {"close_match", "close_remaining", "close_verbatim"}))

\* C1 (amended): every close tag that repair_xml emits for a stack entry (on
\* a match, or at the end of input) is the closing tag of the innermost tag
\* still open when it is appended; the tags open at any moment are the
\* entries of the open-tag stack; none is open when repair_xml returns, and
\* the returned string is the concatenation of the pieces.  Close tags
\* emitted verbatim are outside this balance.
PoppedClosesNest ==
    LET Balanced(w) ==
            /\ w.ok
            /\ w.open = [k \in 1..Len(tag_stack) |-> tag_stack[k][1]]
            /\ pc = "done" => w.open = <<>> /\ repaired = JoinPieces(result)
    IN  Balanced(Nesting(result, <<>>, {"close_match", "close_remaining"}))

\* repair_xml has returned an output with a verbatim close tag and a close
\* tag emitted for a matched entry
StrayAndMatchedClose ==
    /\ pc = "done"
    /\ \E a, b \in 1..Len(result) :
           result[a].by = "close_verbatim" /\ result[b].by = "close_match"

\* the closing tags of all the entries of the stack, top first
ExpectedCloses(stack, by) ==
    [k \in 1..Len(stack) |->
        Piece(by, <<"<", "/">> \o stack[Len(stack) + 1 - k][1] \o <<">">>)]

ExampleRepaired ==
    <<"<", "r", "o", "o", "t", ">", "<", "u", "s", "e", "r", " ", "n", "a", "m", "e",
      "=", "\"", "a", "l", "i", "c", "e", "\"", ">", "<", "/", "u", "s", "e", "r", ">",
      "<", "/", "r", "o", "o", "t", ">">>

\* C2: at the end of the tokens repair_xml appends one closing tag per entry
\* of the open-tag stack, top first, with the entry's original name, and
\* returns with the stack empty; a tag cut off by the end of input is
\* emitted with ">" added and pushed, so that it is closed too.
EndOfInputClosesAll ==
    [][/\ (pc = "rebuild" /\ pc' = "done") =>
              /\ result' = FlushTextBuffer(cfg, result, text_buffer, in_cdata_candidate)
                           \o ExpectedCloses(tag_stack, "close_remaining")
              /\ tag_stack' = <<>>
              /\ repaired' = JoinPieces(result')
       /\ (AtToken({"incomplete_tag"}) /\ i' # i) =>
              /\ result' # <<>>
              /\ endswith(result'[Len(result')].text, <<">">>)
              /\ namespaces = <<>> =>
                     result'[Len(result')].text
                         = <<"<">> \o At(tokens, i).content \o <<">">>
              /\ HasTagName(tokens, i) =>
                     tag_stack' = Append(tag_stack,
                                         <<At(tokens, i + 1).content,
                                           lower(At(tokens, i + 1).content)>>)
       /\ (pc' = "done" /\ xml_string = TruncatedExample) => repaired' = ExampleRepaired
      ]_vars

\* repair_xml has returned after closing a tag that was cut off, whose name
\* has capitals, and then the tag around it
TruncatedTagClosed ==
    /\ pc = "done"
    /\ \E k \in 1..Len(result) :
           /\ k + 2 <= Len(result)
           /\ result[k].by = "incomplete_tag"
           /\ result[k + 1].by = "close_remaining"
           /\ result[k + 1].text # lower(result[k + 1].text)
           /\ result[k + 2].by = "close_remaining"

\* an entry of the stack is within the threshold of the closing name
WithinThreshold(name, stack) ==
    \E k \in 1..Len(stack) : levenshtein_distance(stack[k][2], name) <= cfg.match_threshold

\* the closing name is that of a tag whose markup was stripped
ClosesDangerous(name) ==
    /\ cfg.strip_dangerous_tags
    /\ \E k \in 1..Len(dangerous_tag_stack) : dangerous_tag_stack[k][2] = name

\* the step closes the k-th entry of the stack (counted from 1) and all above
ClosesDownTo(k) ==
    /\ tag_stack' = SubSeq(tag_stack, 1, k - 1)
    /\ result' = FlushTextBuffer(cfg, result, text_buffer, in_cdata_candidate)
                 \o ExpectedCloses(SubSeq(tag_stack, k, Len(tag_stack)), "close_match")

\* the step handles a close tag
ClosesTag == AtToken({"close_tag"}) /\ i' # i

\* C3 as stated: a close tag whose name is within the threshold of a stack
\* entry pops a matched entry and all the entries above it, emitting their
\* closing tags top first.
FuzzyClosePops ==
    [][(ClosesTag /\ WithinThreshold(lower(At(tokens, i).content), tag_stack)) =>
           \E k \in 1..Len(tag_stack) :
               /\ levenshtein_distance(tag_stack[k][2], lower(At(tokens, i).content))
                      <= cfg.match_threshold
               /\ ClosesDownTo(k)
      ]_vars

\* C3 (amended): the same, unless dangerous tags are stripped and the name is
\* that of a stripped open tag (that case is handled first).
FuzzyClosePopsUnlessStripped ==
    [][(/\ ClosesTag
        /\ WithinThreshold(lower(At(tokens, i).content), tag_stack)
        /\ ~ClosesDangerous(lower(At(tokens, i).content))) =>
           \E k \in 1..Len(tag_stack) :
               /\ levenshtein_distance(tag_stack[k][2], lower(At(tokens, i).content))
                      <= cfg.match_threshold
               /\ ClosesDownTo(k)
      ]_vars

\* a close tag has just closed two entries, the last of them under a name
\* that is not spelled as the close tag was
FuzzyClosePoppedTwo ==
    /\ pc = "rebuild" /\ i > 0 /\ At(tokens, i - 1).type = "close_tag"
    /\ Len(result) >= 2
    /\ result[Len(result)].by = "close_match"
    /\ result[Len(result) - 1].by = "close_match"
    /\ result[Len(result)].text # <<"<", "/">> \o At(tokens, i - 1).content \o <<">">>

\* the step appends the close tag as it is and leaves both stacks alone
EmitsVerbatim ==
    /\ result' = Append(FlushTextBuffer(cfg, result, text_buffer, in_cdata_candidate),
                        Piece("close_verbatim",
                              <<"<", "/">> \o At(tokens, i).content \o <<">">>))
    /\ tag_stack' = tag_stack
    /\ dangerous_tag_stack' = dangerous_tag_stack

\* C4 as stated: a close tag with no stack entry within the threshold is
\* appended verbatim and both stacks are unchanged.
StrayCloseVerbatim ==
    [][(ClosesTag /\ ~WithinThreshold(lower(At(tokens, i).content), tag_stack)) =>
           EmitsVerbatim
      ]_vars

\* C4 (amended): the same, unless dangerous tags are stripped and the name is
\* that of a stripped open tag.
StrayCloseVerbatimUnlessStripped ==
    [][(/\ ClosesTag
        /\ ~WithinThreshold(lower(At(tokens, i).content), tag_stack)
        /\ ~ClosesDangerous(lower(At(tokens, i).content))) =>
           EmitsVerbatim
      ]_vars

\* a stray close tag has just been appended while a tag is open
StrayCloseKept ==
    /\ pc = "rebuild" /\ i > 0 /\ At(tokens, i - 1).type = "close_tag"
    /\ result # <<>> /\ result[Len(result)].by = "close_verbatim"
    /\ tag_stack # <<>>

-----------------------------------------------------------------------------
(* Properties of the streaming session (specification SpecStream).         *)

\* the markup and text of an output, without its whitespace
RECURSIVE StructureOf(_)
StructureOf(toks) ==
    IF toks = <<>> THEN <<>>
    ELSE (IF Head(toks).type \in {"whitespace", "tag_name"} THEN <<>>
          ELSE <<(<<Head(toks).type, Head(toks).content>>)>>)
         \o StructureOf(Tail(toks))

\* C5: once a session that saw a tag is finalized, what feed and finalize
\* yielded, joined, has the tags and the content of repair_xml's result on
\* the whole input, whatever the chunks were.
StreamingMatchesRepair ==
    (spc = "finalized" /\ saw_first_tag) =>
        StructureOf(tokenize(yielded \o Join(final)))
            = StructureOf(tokenize(RepairXml(cfg, fed)))

\* the closing tags of all the names of the stack, innermost first
PocExpectedCloses(stack) ==
    [k \in 1..Len(stack) |-> <<"<", "/">> \o stack[Len(stack) + 1 - k] \o <<">">>]

\* C7: finalize yields the rest of the buffer repaired (a tag cut off is
\* closed with ">", and an opening one is pushed; text that is not blank is
\* escaped), then one closing tag per name on the stack, innermost first, and
\* leaves the stack empty.
FinalizeRepairsAndUnwinds ==
    [][(spc = "open" /\ spc' = "finalized") =>
           /\ stream_stack' = <<>>
           /\ IF buffer # <<>> /\ state = "IN_TAG"
              THEN /\ final' # <<>>
                   /\ final'[1] = strip(buffer) \o <<">">>
                   /\ ~startswith(strip(buffer), <<"<", "/">>) =>
                          Tail(final') = PocExpectedCloses(
                              Append(stream_stack, FirstWord(Tail(strip(buffer)))))
              ELSE IF buffer # <<>> /\ state = "IN_TEXT" /\ strip(buffer) # <<>>
              THEN final' = <<poc_escape_entities(buffer)>> \o PocExpectedCloses(stream_stack)
              ELSE final' = PocExpectedCloses(stream_stack)
      ]_vars

-----------------------------------------------------------------------------
(* Properties of the depth guard (specification SpecGuard).                *)

\* open tags less close tags among the tokens
RECURSIVE OpenLessClosed(_)
OpenLessClosed(toks) ==
    IF toks = <<>> THEN 0
    ELSE (IF Head(toks).type = "open_tag" THEN 1
          ELSE IF Head(toks).type = "close_tag" THEN -1 ELSE 0)
         + OpenLessClosed(Tail(toks))

-----------------------------------------------------------------------------
(* Properties of the security filter (specification Spec).                 *)

\* the number of pieces, or tokens, of the kinds given
RECURSIVE CountKind(_, _)
CountKind(seq, kinds) ==
    IF seq = <<>> THEN 0
    ELSE (IF (IF "by" \in DOMAIN Head(seq) THEN Head(seq).by ELSE Head(seq).type) \in kinds
          THEN 1 ELSE 0)
         + CountKind(Tail(seq), kinds)

\* a tag with a name of DANGEROUS_TAGS is among the tokens
DangerousMarkupIn(toks) ==
    \E k \in 1..Len(toks) :
        /\ toks[k].type \in {"open_tag", "close_tag", "self_closing_tag", "incomplete_tag"}
        /\ is_dangerous_tag(toks[k].content)

\* C8: with strip_dangerous_tags the returned string has no tag, opening,
\* closing or self-closing, with a name of DANGEROUS_TAGS, and every text
\* token of the input is emitted.
NoDangerousMarkup ==
    (pc = "done" /\ cfg.strip_dangerous_tags) =>
        /\ ~DangerousMarkupIn(tokenize(repaired))
        /\ CountKind(result, {"text"}) = CountKind(tokens, {"text"})

\* the target of the processing instruction is in DANGEROUS_PI_PATTERNS
DangerousTarget(pi_content) ==
    \E k \in 1..Len(DANGEROUS_PI_PATTERNS) :
        /\ startswith(lower(pi_content), <<"<", "?">> \o DANGEROUS_PI_PATTERNS[k])
        /\ LET rest == Slice(pi_content, 2 + Len(DANGEROUS_PI_PATTERNS[k]), Len(pi_content))
           IN  rest = <<>> \/ ~isalnum(rest[1])

\* C9: with strip_dangerous_pis the returned string has no "<?" followed by
\* a name of DANGEROUS_PI_PATTERNS, in any letter case, and every other
\* processing instruction of the input is in it as it was written.
NoDangerousPi ==
    (pc = "done" /\ cfg.strip_dangerous_pis) =>
        /\ \A k \in 1..Len(DANGEROUS_PI_PATTERNS) :
               ~contains(lower(repaired), <<"<", "?">> \o DANGEROUS_PI_PATTERNS[k])
        /\ \A k \in 1..Len(tokens) :
               (tokens[k].type = "processing_instruction"
                /\ ~DangerousTarget(tokens[k].content)) =>
                   \E n \in 1..Len(result) :
                       /\ result[n].by = "processing_instruction"
                       /\ result[n].text = tokens[k].content

\* C10: with strip_external_entities no doctype token is among the tokens of
\* the rebuild pass and the returned string has no "<!DOCTYPE".
NoDoctype ==
    cfg.strip_external_entities =>
        /\ \A k \in 1..Len(tokens) : tokens[k].type # "doctype"
        /\ pc = "done" =>
               ~contains(upper(repaired), <<"<", "!", "D", "O", "C", "T", "Y", "P", "E">>)

-----------------------------------------------------------------------------
(* Calls of single functions (specification SpecCalls).  pc names the      *)
(* function that is called, xml_string is its argument, cfg the            *)
(* configuration of the engine it is called on, and result what the call   *)
(* returned.                                                               *)

\* every combination of the three security flags
SecurityConfigs ==
    {[DefaultConfig EXCEPT !.strip_dangerous_pis = p, !.strip_external_entities = e,
                           !.strip_dangerous_tags = t] : p, e, t \in BOOLEAN}

\* processing instructions, tag names and declarations, dangerous and not
FilterInputs ==
    {<<"<", "?", "p", "h", "p", " ", "x", "?", ">">>,
     <<"<", "?", "P", "H", "P", "?", ">">>,
     <<"<", "?", "x", "m", "l", "?", ">">>,
     <<"<", "?", "x", " ", "a", "=", "<", "?", "a", "s", "p", "?", ">">>,
     <<"s", "c", "r", "i", "p", "t">>,
     <<"S", "c", "r", "i", "p", "t", " ", "a", "=", "1">>,
     <<"l", "i", "n", "k", "s">>,
     <<"d", "i", "v">>,
     <<"m", "e", "t", "a", " ", "<", "?", "j", "s", "p">>,
     <<"<", "!", "D", "O", "C", "T", "Y", "P", "E", " ", "a", " ", "S", "Y", "S", "T", "E", "M", ">">>,
     <<"<", "!", "E", "N", "T", "I", "T", "Y", " ", "x", " ", "p", "u", "b", "l", "i", "c", ">">>,
     <<"<", "!", "D", "O", "C", "T", "Y", "P", "E", " ", "a", ">">>}

\* what the five methods of XMLSecurityFilter(config) return for the text
Detection(config, text) ==
    [is_dangerous_pi |-> is_dangerous_pi(text),
     is_dangerous_tag |-> is_dangerous_tag(text),
     contains_external_entity |-> contains_external_entity(text),
     should_strip_dangerous_pi |-> should_strip_dangerous_pi(config, text),
     should_strip_dangerous_tag |-> should_strip_dangerous_tag(config, text)]

\* Texts to escape: concatenations of at most MaxEscapePieces of raw special
\* characters, entity references (one of them assembled from two pieces),
\* quotes, and the text the escaper uses as the placeholder of the first
\* reference it sets aside.
EscapeFragments ==
    {<<"&">>, <<"<">>, <<">">>,
     <<"&", "l", "t", ";">>,
     <<"&", "#", "1", ";">>,
     <<"a", "m", "p", ";">>,
     <<"\"", "'">>,
     Placeholder(0)}

MaxEscapePieces == 3

EscapeInputs == Concatenations(EscapeFragments, MaxEscapePieces)

\* Tag contents to repair: the tag name t followed by at most MaxAttrs
\* attributes.  An attribute has one of three names, two of which differ in
\* case only.
AttrNames == {<<"i", "d">>, <<"I", "D">>, <<"x">>}

\* the ways a value is written: unquoted (one needing escaping), between
\* double quotes with a name= inside, between single quotes with a double
\* quote inside
ClosedForms ==
    {[style |-> "unquoted", value |-> <<"1">>],
     [style |-> "unquoted", value |-> <<"<", "\"">>],
     [style |-> "double", value |-> <<"1", " ", "x", "=", "2">>],
     [style |-> "single", value |-> <<"<", "\"">>]}

\* the ways only the last attribute can be written: a quote never closed,
\* and no value at all
OpenForms ==
    {[style |-> "open_double", value |-> <<"1">>],
     [style |-> "open_single", value |-> <<"<", "\"">>],
     [style |-> "none", value |-> <<>>]}

ClosedAttrs == {[name |-> n, style |-> f.style, value |-> f.value] : n \in AttrNames, f \in ClosedForms}

OpenAttrs == {[name |-> n, style |-> f.style, value |-> f.value] : n \in AttrNames, f \in OpenForms}

\* the quote character of an attribute as written; unquoted ones have none
QuoteOf(a) == IF a.style \in {"double", "open_double"} THEN "\"" ELSE "'"

WrittenAttrs == ClosedAttrs \cup OpenAttrs

Written(a) ==
    a.name \o <<"=">> \o
    (CASE a.style = "unquoted" -> a.value
       [] a.style \in {"double", "single"} -> <<QuoteOf(a)>> \o a.value \o <<QuoteOf(a)>>
       [] a.style \in {"open_double", "open_single"} -> <<QuoteOf(a)>> \o a.value
       [] OTHER -> <<>>)

RECURSIVE AttrTails(_)
AttrTails(n) ==
    IF n = 0 THEN {<<>>}
    ELSE {<<>>}
         \cup {<<" ">> \o Written(a) : a \in WrittenAttrs}
         \cup {<<" ">> \o Written(a) \o t :
                  a \in ClosedAttrs, t \in AttrTails(n - 1) \ {<<>>}}

MaxAttrs == 3

AttrInputs == {<<"t">> \o t : t \in AttrTails(MaxAttrs)}

\* Replies to extract the XML from: concatenations of at most MaxPieces of
\* tags, text, a leading remark, and two trailing-commentary phrases of the
\* end patterns (a phrase after whitespace; a capitalised line).
ExtractFragments ==
    {<<"<", "a", ">">>,
     <<"<", "/", "a", ">">>,
     <<"x">>,
     <<"o", "k", ":", " ">>,
     <<" ", "T", "h", "a", "t", " ", "s", "h", "o", "u", "l", "d">>,
     <<"\n", "S", "o">>}

ExtractInputs == Concatenations(ExtractFragments, MaxPieces)

\* Documents to repair with wrap_multiple_roots set: concatenations of at
\* most MaxPieces of tags, a closing tag nothing opened, text, whitespace
\* and a processing instruction.
WrapFragments ==
    {<<"<", "a", ">">>,
     <<"<", "/", "a", ">">>,
     <<"<", "/", "q", "q", "q", "q", ">">>,
     <<"<", "c", "/", ">">>,
     <<"x">>,
     <<" ">>,
     <<"<", "?", "x", "?", ">">>}

WrapInputs == Concatenations(WrapFragments, MaxPieces)

WrappingConfig == [DefaultConfig EXCEPT !.wrap_multiple_roots = TRUE]

\* Documents to convert: a root r with at most MaxSiblings children, each an
\* element i or j with text, with an attribute, with both, empty, or
\* self-closing.
ChildElements ==
    {<<"<", "i", ">", "a", "<", "/", "i", ">">>,
     <<"<", "i", ">", "b", "<", "/", "i", ">">>,
     <<"<", "i", ">", "<", "/", "i", ">">>,
     <<"<", "i", "/", ">">>,
     <<"<", "i", " ", "k", "=", "\"", "1", "\"", ">", "a", "<", "/", "i", ">">>,
     <<"<", "i", " ", "k", "=", "\"", "2", "\"", "/", ">">>,
     <<"<", "j", ">", "a", "<", "/", "j", ">">>}

MaxSiblings == 3

RootOf(children) == <<"<", "r", ">">> \o children \o <<"<", "/", "r", ">">>

DictInputs == {RootOf(c) : c \in Concatenations(ChildElements, MaxSiblings)}

\* validate_xml_input: values of three types, texts up to one character
\* longer than the largest limit, every limit from 0 and no limit at all
MaxInputSize == 3

ValidationTexts == Concatenations({<<" ">>, <<"\n">>, <<"a">>, <<"<">>}, MaxInputSize + 1)

ValidationValues ==
    {PyValue("str", t) : t \in ValidationTexts}
        \cup {PyValue("NoneType", <<>>), PyValue("int", <<>>)}

ValidationCalls ==
    [xml_input : ValidationValues, allow_empty : BOOLEAN,
     max_size : {<<>>} \cup {<<n>> : n \in 0..MaxInputSize}]

\* validate_repaired_output: outputs with and without markup, and two originals
OutputFragments ==
    { <<"<", "a", ">">>, <<"<", "/", "a", ">">>, <<"<", "a">>, <<"x">>, <<" ">>,
      <<"<">>, <<">">>, <<"<", "!", "-", "-", "c", "-", "-", ">">> }

OutputInputs == Concatenations(OutputFragments, MaxPieces)

Originals == {<<>>, <<"<", "a", ">">>, <<"x">>}

\* find_best_matching_tag: stacks of up to MaxStack entries whose names lie
\* at distances 0 to 4 from each other and from the closing names, which are
\* lowercase as the one caller passes them
MaxStack == 3

StackNames ==
    { <<"a">>, <<"a", "b">>, <<"A", "B">>, <<"a", "b", "c">>, <<"b", "c">>,
      <<"w", "x", "y", "z">> }

StackEntries == {<<name, lower(name)>> : name \in StackNames}

ClosingNames ==
    { <<"a">>, <<"a", "b">>, <<"a", "c">>, <<"a", "b", "c">>, <<"q">> }

MatchConfigs == {[DefaultConfig EXCEPT !.match_threshold = t] : t \in 0..2}

CallNames == {"detect", "escape_entities", "escape_attribute_value",
              "fix_malformed_attributes", "extract_xml_content", "repair_xml",
              "xml_to_dict", "validate_xml_input", "validate_repaired_output",
              "find_best_matching_tag"}

CallInputs(call) ==
    CASE call = "detect" -> FilterInputs
      [] call \in {"escape_entities", "escape_attribute_value"} -> EscapeInputs
      [] call = "fix_malformed_attributes" -> AttrInputs
      [] call = "extract_xml_content" -> ExtractInputs
      [] call = "repair_xml" -> WrapInputs
      [] call = "xml_to_dict" -> DictInputs
      [] call = "validate_xml_input" -> {<<>>}
      [] call = "validate_repaired_output" -> OutputInputs
      [] call = "find_best_matching_tag" -> ClosingNames

CallConfigs(call) ==
    CASE call = "detect" -> SecurityConfigs
      [] call = "repair_xml" -> {WrappingConfig}
      [] call = "validate_xml_input" -> ValidationCalls
      [] call = "find_best_matching_tag" -> MatchConfigs
      [] OTHER -> {DefaultConfig}

\* the tag stack the call finds
CallStacks(call) ==
    IF call = "find_best_matching_tag" THEN Concatenations({<<e>> : e \in StackEntries}, MaxStack)
    ELSE {<<>>}

InitCalls ==
    /\ pc \in CallNames
    /\ xml_string \in CallInputs(pc)
    /\ cfg \in CallConfigs(pc)
    /\ namespaces = <<>> /\ tokens = <<>> /\ i = 0 /\ result = <<>>
    /\ tag_stack \in CallStacks(pc) /\ dangerous_tag_stack = <<>> /\ first_open_tag = TRUE
    /\ text_buffer = <<>> /\ in_cdata_candidate = FALSE /\ repaired = <<>>
    /\ StreamIdle

\* the call returns value
Returned(value, done) ==
    /\ result' = value
    /\ pc' = done
    /\ UNCHANGED <<cfg, xml_string, namespaces, tokens, i, tag_stack, dangerous_tag_stack,
                   first_open_tag, text_buffer, in_cdata_candidate, repaired>>
    /\ UNCHANGED streamVars

Detect ==
    /\ pc = "detect"
    /\ Returned(Detection(cfg, xml_string), "detected")

EscapeEntities ==
    /\ pc = "escape_entities"
    /\ Returned(escape_entities(xml_string), "escaped")

\* escape_attribute_value(value, quote_char) for either quote character
EscapeAttributeValue ==
    /\ pc = "escape_attribute_value"
    /\ \E quote_char \in Quotes :
           Returned([quote_char |-> quote_char,
                     value |-> escape_attribute_value(xml_string, quote_char)],
                    "attribute_escaped")

\* fix_malformed_attributes(tag_content): the repaired text, which both
\* versions of the function return, and the actions attribute_parser's logs
FixMalformedAttributes ==
    /\ pc = "fix_malformed_attributes"
    /\ Returned([text |-> fix_malformed_attributes(xml_string),
                 actions |-> fix_malformed_attributes_actions(xml_string)],
                "attributes_fixed")

ExtractXmlContent ==
    /\ pc = "extract_xml_content"
    /\ Returned(extract_xml_content(cfg, xml_string), "extracted")

\* repair_xml(xml_string) with wrap_multiple_roots set: the text joined from
\* the rebuilt pieces (step 4) and what step 5 makes of it
RepairAndWrap ==
    /\ pc = "repair_xml"
    /\ Returned([rebuilt |-> RepairXml([cfg EXCEPT !.wrap_multiple_roots = FALSE], xml_string),
                 repaired |-> RepairXml(cfg, xml_string)],
                "repaired")

XmlToDict ==
    /\ pc = "xml_to_dict"
    /\ Returned(xml_to_dict(cfg, xml_string), "converted")

\* validate_xml_input(xml_input, allow_empty, max_size), its arguments in cfg
ValidateXmlInput ==
    /\ pc = "validate_xml_input"
    /\ Returned(validate_xml_input(cfg.xml_input, cfg.allow_empty, cfg.max_size),
                "input_validated")

\* validate_repaired_output(repaired, original) for each original
ValidateRepairedOutput ==
    /\ pc = "validate_repaired_output"
    /\ \E original \in Originals :
           Returned([original |-> original,
                     outcome |-> validate_repaired_output(xml_string, original)],
                    "output_validated")

\* find_best_matching_tag(closing_tag, tag_stack) with the engine's threshold
FindBestMatchingTag ==
    /\ pc = "find_best_matching_tag"
    /\ Returned(find_best_matching_tag(xml_string, tag_stack, cfg.match_threshold),
                "matched")

NextCalls ==
    \/ Detect
    \/ EscapeEntities
    \/ EscapeAttributeValue
    \/ FixMalformedAttributes
    \/ ExtractXmlContent
    \/ RepairAndWrap
    \/ XmlToDict
    \/ ValidateXmlInput
    \/ ValidateRepairedOutput
    \/ FindBestMatchingTag

SpecCalls == InitCalls /\ [][NextCalls]_vars

\* C11: is_dangerous_pi, is_dangerous_tag and contains_external_entity give
\* for a text what they give under every other combination of the security
\* flags, and should_strip_dangerous_pi / should_strip_dangerous_tag are true
\* exactly when the predicate is true and the flag is set.
DetectionIgnoresPolicy ==
    pc = "detected" =>
        /\ \A other \in SecurityConfigs :
               /\ Detection(other, xml_string).is_dangerous_pi = result.is_dangerous_pi
               /\ Detection(other, xml_string).is_dangerous_tag = result.is_dangerous_tag
               /\ Detection(other, xml_string).contains_external_entity
                      = result.contains_external_entity
        /\ result.should_strip_dangerous_pi
               = (cfg.strip_dangerous_pis /\ result.is_dangerous_pi)
        /\ result.should_strip_dangerous_tag
               = (cfg.strip_dangerous_tags /\ result.is_dangerous_tag)

\* a dangerous tag name was detected with the policy off, and is not stripped
DetectedNotStripped ==
    /\ pc = "detected"
    /\ result.is_dangerous_tag /\ ~cfg.strip_dangerous_tags
    /\ ~result.should_strip_dangerous_tag
    /\ cfg.strip_dangerous_pis /\ ~result.is_dangerous_pi

\* C12: escaping what was escaped changes nothing, for escape_entities and
\* for escape_attribute_value with the same quote character.
EscapingIdempotent ==
    /\ pc = "escaped" => escape_entities(result) = result
    /\ pc = "attribute_escaped" =>
           escape_attribute_value(result.value, result.quote_char) = result.value

\* The text with every valid entity reference kept and every other "&", "<",
\* ">" replaced, in one pass from offset k.
RECURSIVE EscapedFrom(_, _)
EscapedFrom(s, k) ==
    IF k >= Len(s) THEN <<>>
    ELSE IF EntityEnd(s, k) # -1
    THEN Slice(s, k, EntityEnd(s, k)) \o EscapedFrom(s, EntityEnd(s, k))
    ELSE (CASE At(s, k) = "&" -> Amp
            [] At(s, k) = "<" -> Lt
            [] At(s, k) = ">" -> Gt
            [] OTHER -> <<At(s, k)>>)
         \o EscapedFrom(s, k + 1)

\* C13: what escape_entities returns has no "<" and no ">", and each "&" in
\* it starts a valid entity reference; for a text without the NUL character
\* it is the text with every valid entity reference kept and every other
\* "&", "<", ">" replaced by "&amp;", "&lt;", "&gt;".
EscapesAllSpecials ==
    pc = "escaped" =>
        /\ \A k \in 1..Len(result) :
               /\ result[k] \notin {"<", ">"}
               /\ result[k] = "&" => EntityEnd(result, k - 1) # -1
        /\ (\A k \in 1..Len(xml_string) : xml_string[k] # NUL) =>
               result = EscapedFrom(xml_string, 0)

\* a text with a raw "&", a raw "<" and an entity reference was escaped
EscapedMixedText ==
    /\ pc = "escaped"
    /\ contains(xml_string, <<"&", "<">>)
    /\ contains(xml_string, <<"&", "l", "t", ";">>)
    /\ contains(result, <<"&", "a", "m", "p", ";", "&", "l", "t", ";">>)

\* Whether the attribute a, as written, stands at offset k of the content and
\* is followed by the end of the content or, when its value is closed, by a
\* space.
StandsAt(content, k, a) ==
    /\ k + Len(Written(a)) <= Len(content)
    /\ Slice(content, k, k + Len(Written(a))) = Written(a)
    /\ \/ k + Len(Written(a)) = Len(content)
       \/ a \in ClosedAttrs /\ At(content, k + Len(Written(a))) = " "

\* The attributes written in the content from offset k (the space before
\* the next attribute), in order.
RECURSIVE WrittenFrom(_, _)
WrittenFrom(content, k) ==
    IF k >= Len(content) THEN <<>>
    ELSE LET a == CHOOSE w \in WrittenAttrs : StandsAt(content, k + 1, w)
         IN  <<a>> \o WrittenFrom(content, k + 1 + Len(Written(a)))

\* The positions of the attributes that are retained: those whose name, in
\* lower case, no earlier attribute has.
Retained(attrs) ==
    {k \in 1..Len(attrs) : \A j \in 1..(k - 1) : lower(attrs[j].name) # lower(attrs[k].name)}

\* What a retained attribute is emitted as when its value goes between two
\* quote characters q after the attribute escaper ran over it for q.
Enclosed(a, q) == <<" ">> \o a.name \o <<"=", q>> \o escape_attribute_value(a.value, q) \o <<q>>

\* The quote character the code encloses a value in: the one the value was
\* written with, and the double quote for an unquoted value.
EmittedQuote(a) == IF a.style \in {"single", "open_single"} THEN "'" ELSE "\""

RECURSIVE Emitted(_, _, _)
Emitted(attrs, k, always_double) ==
    IF k > Len(attrs) THEN <<>>
    ELSE (IF k \notin Retained(attrs) THEN <<>>
          ELSE IF attrs[k].style = "none" /\ ~always_double
          THEN <<" ">> \o attrs[k].name \o <<"=", "\"">>
          ELSE Enclosed(attrs[k], IF always_double THEN "\"" ELSE EmittedQuote(attrs[k])))
         \o Emitted(attrs, k + 1, always_double)

\* C14 as stated: every retained value is emitted between double quotes,
\* escaped by the attribute escaper, however it was written.
RetainedValuesDoubleQuoted ==
    pc = "attributes_fixed" =>
        result.text = <<"t">> \o Emitted(WrittenFrom(xml_string, 1), 1, TRUE)

\* C14: every retained value is emitted between two quote characters, the
\* one it was written with (closed or not) or the double quote when it was
\* unquoted, and escaped by the attribute escaper for that character; a
\* retained name that ends the content with its "=" is emitted followed by
\* one double quote.
RetainedValuesQuoted ==
    pc = "attributes_fixed" =>
        result.text = <<"t">> \o Emitted(WrittenFrom(xml_string, 1), 1, FALSE)

\* two retained attributes: a single-quoted value that needed escaping, and
\* a value whose double quote was never closed
QuotedBothStyles ==
    /\ pc = "attributes_fixed"
    /\ xml_string = <<"t", " ", "x", "=", "'", "<", "\"", "'", " ", "i", "d", "=", "\"", "1">>
    /\ result.text = <<"t", " ", "x", "=", "'", "&", "l", "t", ";", "\"", "'">>
                     \o <<" ", "i", "d", "=", "\"", "1", "\"">>

Count(seq, repair_type) == Cardinality({k \in 1..Len(seq) : seq[k].repair_type = repair_type})

\* The tag content with only the attributes at the given positions.
RECURSIVE WrittenOnly(_, _, _)
WrittenOnly(attrs, k, keep) ==
    IF k > Len(attrs) THEN <<>>
    ELSE (IF k \in keep THEN <<" ">> \o Written(attrs[k]) ELSE <<>>)
         \o WrittenOnly(attrs, k + 1, keep)

\* The names, in lower case, of the attributes that are not retained, in order.
RECURSIVE DroppedNames(_, _)
DroppedNames(attrs, k) ==
    IF k > Len(attrs) THEN <<>>
    ELSE (IF k \in Retained(attrs) THEN <<>> ELSE <<lower(attrs[k].name)>>)
         \o DroppedNames(attrs, k + 1)

RECURSIVE ActionNames(_, _, _)
ActionNames(seq, k, repair_type) ==
    IF k > Len(seq) THEN <<>>
    ELSE (IF seq[k].repair_type = repair_type THEN <<seq[k].attribute>> ELSE <<>>)
         \o ActionNames(seq, k + 1, repair_type)

\* C15: the repaired tag is the one repair gives for the content without the
\* later occurrences of a name (compared in lower case), so the first
\* occurrence keeps its value and what follows a dropped occurrence is
\* emitted as if the occurrence were not there; and one DUPLICATE_ATTRIBUTE
\* action is logged for each dropped occurrence, in order.
FirstOccurrenceWins ==
    pc = "attributes_fixed" =>
        /\ result.text = fix_malformed_attributes(
               <<"t">> \o WrittenOnly(WrittenFrom(xml_string, 1), 1,
                                      Retained(WrittenFrom(xml_string, 1))))
        /\ ActionNames(result.actions, 1, "DUPLICATE_ATTRIBUTE")
               = DroppedNames(WrittenFrom(xml_string, 1), 1)

\* id, then ID with an unquoted value, dropped, then x, which is kept
DroppedDuplicateThenKept ==
    /\ pc = "attributes_fixed"
    /\ xml_string = <<"t", " ", "i", "d", "=", "'", "<", "\"", "'", " ", "I", "D", "=", "1", " ", "x", "=", "1">>
    /\ result.text = <<"t", " ", "i", "d", "=", "'", "&", "l", "t", ";", "\"", "'", " ", "x", "=", "\"", "1", "\"">>
    /\ Count(result.actions, "DUPLICATE_ATTRIBUTE") = 1
\* C18: what extraction returns is the reply, stripped, without a prefix that
\* has no XML start in it and without a suffix that has no tag markup in it.
ExtractionKeepsMarkup ==
    pc = "extracted" =>
        \E a \in 0..Len(strip(xml_string)) :
            /\ a + Len(result) <= Len(strip(xml_string))
            /\ Slice(strip(xml_string), a, a + Len(result)) = result
            /\ FirstXmlStart(strip(xml_string), 0) \in {-1} \cup (a..Len(xml_string))
            /\ \A k \in (a + Len(result) + 1)..Len(strip(xml_string)) :
                   strip(xml_string)[k] \notin {"<", ">"}

\* The elements and the non-blank text at the top level of a text, read off
\* its tokens: an element is at the top level when every element opened
\* before it has been closed; a closing tag that closes nothing is skipped.
RECURSIVE TopLevel(_, _, _, _)
TopLevel(toks, k, open, top) ==
    IF k > Len(toks) THEN top
    ELSE CASE toks[k].type \in {"open_tag", "incomplete_tag"} ->
                  TopLevel(toks, k + 1, open + 1,
                           IF open = 0 THEN [top EXCEPT !.elements = @ + 1] ELSE top)
           [] toks[k].type = "self_closing_tag" ->
                  TopLevel(toks, k + 1, open,
                           IF open = 0 THEN [top EXCEPT !.elements = @ + 1] ELSE top)
           [] toks[k].type = "close_tag" ->
                  TopLevel(toks, k + 1, IF open > 0 THEN open - 1 ELSE 0, top)
           [] toks[k].type = "text" /\ open = 0 /\ strip(toks[k].content) # <<>> ->
                  TopLevel(toks, k + 1, open, [top EXCEPT !.text = TRUE])
           [] OTHER -> TopLevel(toks, k + 1, open, top)

TopLevelOf(xml) == TopLevel(tokenize(xml), 1, 0, [elements |-> 0, text |-> FALSE])

\* C19: with wrap_multiple_roots set, a rebuilt text with more than one
\* top-level element, or with top-level text next to an element, comes out
\* with exactly one top-level element and no top-level text; one with a
\* single top-level element and no top-level text comes out unchanged.
ManyRootsWrapped ==
    pc = "repaired" =>
        /\ (\/ TopLevelOf(result.rebuilt).elements > 1
            \/ TopLevelOf(result.rebuilt).elements = 1 /\ TopLevelOf(result.rebuilt).text) =>
               /\ TopLevelOf(result.repaired).elements = 1
               /\ ~TopLevelOf(result.repaired).text
        /\ (TopLevelOf(result.rebuilt).elements = 1 /\ ~TopLevelOf(result.rebuilt).text) =>
               result.repaired = result.rebuilt

\* The children of the root of a document, in order, from offset k.
RECURSIVE ChildrenFrom(_, _)
ChildrenFrom(doc, k) ==
    IF k + 4 >= Len(doc) THEN <<>>
    ELSE LET child == CHOOSE c \in ChildElements : Slice(doc, k, k + Len(c)) = c
         IN  <<child>> \o ChildrenFrom(doc, k + Len(child))

\* d[key], or a value no conversion gives when the key is missing
Under(d, key) ==
    IF d.kind = "dict" /\ KeyIndex(d.items, key, 1) # 0
    THEN d.items[KeyIndex(d.items, key, 1)].value
    ELSE [kind |-> "missing", items |-> <<>>, text |-> <<>>]

\* the children with the tag name, in order
RECURSIVE Named(_, _)
Named(children, name) ==
    IF children = <<>> THEN <<>>
    ELSE (IF Head(children)[2] = name THEN <<Head(children)>> ELSE <<>>)
         \o Named(Tail(children), name)

\* what the child is converted to when it is the only child of the root
ConvertedAlone(child) == Under(Under(xml_to_dict(DefaultConfig, RootOf(child)), <<"r">>), <<child[2]>>)

\* C20: when two or more children of the root have the same tag name, the
\* root holds under that name a list with one entry for each of them, in
\* document order, each entry what the child converts to by itself.
SiblingsListed ==
    pc = "converted" =>
        \A name \in {"i", "j"} :
            LET same == Named(ChildrenFrom(xml_string, 3), name)
                held == Under(Under(result, <<"r">>), <<name>>)
            IN  Len(same) >= 2 =>
                    /\ held.kind = "list"
                    /\ Len(held.items) = Len(same)
                    /\ \A n \in 1..Len(same) : held.items[n] = ConvertedAlone(same[n])

\* the text is empty or made of whitespace only
Blank(text) == \A k \in 1..Len(text) : text[k] \in {" ", "\n", "\t", "\r"}

\* C21: validate_xml_input raises exactly when the input is not a string, or
\* is blank while allow_empty is false, or is longer than a max_size that is
\* not None; the error comes from the type check before the emptiness check
\* and from the emptiness check before the size check, and a string exactly
\* max_size long passes the size check.
ValidationRaisesExactly ==
    pc = "input_validated" =>
        LET not_string == cfg.xml_input.type # "str"
            text == cfg.xml_input.value
            empty == ~not_string /\ Blank(text) /\ ~cfg.allow_empty
            too_long == ~not_string /\ cfg.max_size # <<>> /\ Len(text) > cfg.max_size[1]
        IN  /\ result.raises <=> (not_string \/ empty \/ too_long)
            /\ not_string => result.check = "type"
            /\ empty => result.check = "empty"
            /\ (too_long /\ ~empty) => result.check = "size"
            /\ (~not_string /\ ~empty /\ cfg.max_size = <<Len(text)>>) => ~result.raises

\* a string of exactly max_size characters, not blank, was accepted
AcceptedAtLimit ==
    /\ pc = "input_validated"
    /\ cfg.xml_input = PyValue("str", <<"<", "a", " ">>)
    /\ cfg.max_size = <<3>>
    /\ ~cfg.allow_empty
    /\ result = Accepted

\* the text holds a complete tag: opening, closing or self-closing
RECURSIVE HasTagToken(_, _)
HasTagToken(toks, k) ==
    /\ k <= Len(toks)
    /\ \/ toks[k].type \in {"open_tag", "close_tag", "self_closing_tag"}
       \/ HasTagToken(toks, k + 1)

\* C22: the output check raises exactly when the repaired output is empty
\* after trimming or holds no tag, and what it does is the same for every
\* original input.
OutputCheckRaisesWithoutTags ==
    pc = "output_validated" =>
        /\ result.outcome.raises <=>
               (strip(xml_string) = <<>> \/ ~HasTagToken(tokenize(xml_string), 1))
        /\ \A original \in Originals :
               validate_repaired_output(xml_string, original) = result.outcome

\* C24: for a fixed input the text yielded by feed and finalize together is
\* the same however the input is cut into chunks: it is what the session
\* yields when the whole input is fed as one chunk.
ChunkingInvisible ==
    spc = "finalized" => yielded \o Join(final) = StreamOnce(xml_string)

\* the tags among the tokens from the k-th on nest: every closing tag closes
\* the innermost element still open, and none is left open at the end
RECURSIVE BalancedFrom(_, _, _)
BalancedFrom(toks, k, open) ==
    IF k > Len(toks) THEN open = <<>>
    ELSE IF toks[k].type \in {"open_tag", "incomplete_tag"}
    THEN BalancedFrom(toks, k + 1, Append(open, FirstWord(toks[k].content)))
    ELSE IF toks[k].type = "close_tag"
    THEN /\ open # <<>>
         /\ open[Len(open)] = strip(toks[k].content)
         /\ BalancedFrom(toks, k + 1, SubSeq(open, 1, Len(open) - 1))
    ELSE BalancedFrom(toks, k + 1, open)

\* C25: the tags a streaming session repairs are pushed and popped as the
\* core engine does it (a close tag pops the entry it matches, also by case
\* or within the threshold, and all above it), so the text that feed and
\* finalize yield together is tag-balanced.
StreamOutputBalanced ==
    (spc = "finalized" /\ saw_first_tag) =>
        BalancedFrom(tokenize(yielded \o Join(final)), 1, <<>>)

\* the stack positions (from 1) whose lowercase name is at the distance
AtDistance(stack, closing_tag, d) ==
    {k \in 1..Len(stack) : levenshtein_distance(stack[k][2], closing_tag) = d}

\* the topmost of the positions
Topmost(positions) == CHOOSE k \in positions : \A m \in positions : m <= k

\* the match on the entry at the position, index counted from 0 as in the code
MatchAt(stack, k, d) ==
    [found |-> TRUE, index |-> k - 1, tag |-> stack[k][1], distance |-> d]

\* C29: find_best_matching_tag returns the topmost entry whose lowercase name
\* equals the closing name, with distance 0, whatever lies above it; if no
\* entry is equal, the topmost of the entries at the least distance, provided
\* that distance is at most match_threshold; and nothing otherwise.
BestMatchInnermost ==
    pc = "matched" =>
        LET exact == {k \in 1..Len(tag_stack) : tag_stack[k][2] = xml_string}
            least == CHOOSE d \in 0..10 :
                         /\ AtDistance(tag_stack, xml_string, d) # {}
                         /\ \A e \in 0..(d - 1) : AtDistance(tag_stack, xml_string, e) = {}
        IN  IF tag_stack = <<>> THEN result = NoMatch
            ELSE IF exact # {} THEN result = MatchAt(tag_stack, Topmost(exact), 0)
            ELSE IF least <= cfg.match_threshold
            THEN result = MatchAt(tag_stack, Topmost(AtDistance(tag_stack, xml_string, least)),
                                  least)
            ELSE result = NoMatch

\* closing "ac" against the stack a, ab, abc: ab and abc are both at distance
\* 1, a is at distance 1 as well, and the innermost of them (abc) is returned
TieKeptInnermost ==
    /\ pc = "matched"
    /\ xml_string = <<"a", "c">>
    /\ tag_stack = << <<(<<"a">>), <<"a">>>>, <<(<<"a", "b">>), <<"a", "b">>>>,
                      <<(<<"a", "b", "c">>), <<"a", "b", "c">>>> >>
    /\ cfg.match_threshold = 2
    /\ result = [found |-> TRUE, index |-> 2, tag |-> <<"a", "b", "c">>, distance |-> 1]

-----------------------------------------------------------------------------
(* XMLRepairEngine.tokenize an iteration at a time, followed by the        *)
(* rebuild loop of repair_xml over the tokens it returned.  While pc is    *)
(* "tokenize", i is the scan index of tokenize and tokens the list it      *)
(* builds; the rebuild loop then starts its own i at 0.                    *)

\* Pieces of markup, complete and broken: a lone "<", tags, the delimiters
\* of comments, CDATA sections, processing instructions and DOCTYPE, quotes.
ScanFragments ==
    {<<"<">>,
     <<"<", "a", ">">>,
     <<"<", "/", "b", ">">>,
     <<"<", "a", " ", "b", "=">>,
     <<"<", "!", "-", "-">>,
     <<"-", "-", ">">>,
     <<"<", "!", "[", "C", "D", "A", "T", "A", "[">>,
     <<"]", "]", ">">>,
     <<"<", "?">>,
     <<"?", ">">>,
     <<"<", "!", "d", "o", "c", "t", "y", "p", "e", "[">>,
     <<"\"">>,
     <<"x">>,
     <<" ">>,
     <<"/", ">">>}

MaxScanPieces == 3

ScanInputs == Concatenations(ScanFragments, MaxScanPieces)

InitScan ==
    /\ cfg = DefaultConfig
    /\ xml_string = <<>>
    /\ pc = "idle"
    /\ namespaces = <<>>
    /\ tokens = <<>> /\ i = 0 /\ result = <<>>
    /\ tag_stack = <<>> /\ dangerous_tag_stack = <<>> /\ first_open_tag = TRUE
    /\ text_buffer = <<>> /\ in_cdata_candidate = FALSE /\ repaired = <<>>
    /\ StreamIdle

\* repair_xml is entered with a text: extract_namespaces, then tokenize
EnterTokenize ==
    /\ pc = "idle"
    /\ \E text \in ScanInputs :
           /\ xml_string' = text
           /\ namespaces' = extract_namespaces(text)
    /\ pc' = "tokenize"
    /\ UNCHANGED <<cfg, tokens, i, result, tag_stack, dangerous_tag_stack,
                   first_open_tag, text_buffer, in_cdata_candidate, repaired>>
    /\ UNCHANGED streamVars

Scanned(step, next) ==
    /\ tokens' = tokens \o step.toks
    /\ i' = next
    /\ pc' = IF step.brk THEN "rebuild" ELSE pc
    /\ UNCHANGED <<cfg, xml_string, namespaces, result, tag_stack, dangerous_tag_stack,
                   first_open_tag, text_buffer, in_cdata_candidate, repaired>>
    /\ UNCHANGED streamVars

\* an iteration of the while loop that goes on to the next one
Scan ==
    /\ pc = "tokenize"
    /\ i < Len(xml_string)
    /\ ~TokStep(xml_string, i).brk
    /\ Scanned(TokStep(xml_string, i), TokStep(xml_string, i).i)

\* an iteration that breaks out of the loop: the input is cut off inside a
\* tag or a processing instruction; tokenize returns, the rebuild loop starts
ScanTruncated ==
    /\ pc = "tokenize"
    /\ i < Len(xml_string)
    /\ TokStep(xml_string, i).brk
    /\ Scanned(TokStep(xml_string, i), 0)

\* the loop condition fails: tokenize returns, the rebuild loop starts
ScanEnd ==
    /\ pc = "tokenize"
    /\ i >= Len(xml_string)
    /\ i' = 0
    /\ pc' = "rebuild"
    /\ UNCHANGED <<cfg, xml_string, namespaces, tokens, result, tag_stack,
                   dangerous_tag_stack, first_open_tag, text_buffer,
                   in_cdata_candidate, repaired>>
    /\ UNCHANGED streamVars

NextScan ==
    \/ EnterTokenize
    \/ Scan
    \/ ScanTruncated
    \/ ScanEnd
    \/ ProcessingInstruction
    \/ OpenTag
    \/ CloseTag
    \/ SelfClosingTag
    \/ IncompleteTag
    \/ Text
    \/ Whitespace
    \/ Verbatim
    \/ EndOfInput

SpecScan == InitScan /\ [][NextScan]_vars

\* the token types the rebuild loop has a branch for
RebuildTypes ==
    {"processing_instruction", "open_tag", "close_tag", "self_closing_tag",
     "incomplete_tag", "text", "whitespace", "doctype", "comment", "cdata"}

\* C16: the iteration the tokenizer loop is about to make moves the scan
\* index forward or leaves the loop, and each one made moved it forward,
\* never past the end of the text, or left the loop; every iteration of
\* the rebuild loop moves the token index forward, never past the end of the
\* token list, or is the last step of repair; and the token the rebuild loop
\* stands on is one it has a branch for.  So the scan takes at most
\* Len(xml_string) iterations, the rebuild at most Len(tokens), and no step
\* is left without a successor before repair is done.
LoopsAdvanceAndEnd ==
    /\ [](pc = "tokenize" /\ i < Len(xml_string) =>
             \/ TokStep(xml_string, i).brk
             \/ TokStep(xml_string, i).i > i)
    /\ [][/\ pc = "tokenize" =>
                 \/ pc' = "tokenize" /\ i' > i /\ i' <= Len(xml_string)
                 \/ pc' = "rebuild" /\ Len(tokens') >= Len(tokens)
          /\ pc = "rebuild" =>
                 \/ pc' = "rebuild" /\ i' > i /\ i' <= Len(tokens)
                 \/ pc' = "done" /\ i >= Len(tokens)
          /\ (pc' = "rebuild" /\ i' < Len(tokens')) => At(tokens', i').type \in RebuildTypes
          /\ pc # "done"]_vars

\* a lone "<" kept as text, a tag, and a tag cut off after name=: scanned in
\* three iterations and rebuilt to the end
ScannedBrokenMarkup ==
    /\ pc = "done"
    /\ xml_string = <<"<", "<", "a", ">", "<", "a", " ", "b", "=">>
    /\ Len(tokens) = 5
    /\ tokens[1].type = "text" /\ tokens[4].type = "incomplete_tag"
-----------------------------------------------------------------------------
(* Two streaming sessions (StreamingXMLRepairPOC objects) used by one      *)
(* caller that interleaves its calls.  Here each session variable holds    *)
(* one value per session: buffer[k], state[k], stream_stack[k] and         *)
(* saw_first_tag[k] are the attributes __init__ gives object k; pending[k] *)
(* is the text still to feed to it, fed[k] the chunks fed so far.          *)

Sessions == {1, 2}

SessionTexts ==
    {<<"<", "a", ">", "x", "<", "b">>,
     <<"<", "/", "a", ">", "<", "b", ">">>,
     <<"x", "<", "a", ">", "<", "/", "a", ">">>,
     <<"<", "b", ">", "&">>}

\* every session reads the tag stack of another object: not the code's
SharedStack(stacks, k) == stacks[1]

\* self.tag_stack of session k: an attribute of the instance, set in __init__
OwnStack(stacks, k) == stacks[k]

InitSessions ==
    /\ cfg = DefaultConfig
    /\ xml_string \in [Sessions -> SessionTexts]
    /\ pending = xml_string
    /\ fed = [k \in Sessions |-> <<>>]
    /\ buffer = [k \in Sessions |-> <<>>]
    /\ state = [k \in Sessions |-> "INITIAL"]
    /\ stream_stack = [k \in Sessions |-> <<>>]
    /\ saw_first_tag = [k \in Sessions |-> FALSE]
    /\ yielded = [k \in Sessions |-> <<>>]
    /\ final = [k \in Sessions |-> <<>>]
    /\ spc = [k \in Sessions |-> "open"]
    /\ max_nesting_depth = 0 /\ depth = 0
    /\ CoreIdle

SessionOf(k) == Session(buffer[k], state[k], OwnStack(stream_stack, k), saw_first_tag[k])

\* session k.feed(chunk) with the next n characters of its text
FeedSession(k) ==
    /\ spc[k] = "open"
    /\ pending[k] # <<>>
    /\ \E n \in ChunkSizes(pending[k]) :
           LET Fed(r) ==
                   /\ buffer' = [buffer EXCEPT ![k] = r.session.buffer]
                   /\ state' = [state EXCEPT ![k] = r.session.state]
                   /\ stream_stack' = [stream_stack EXCEPT ![k] = r.session.tag_stack]
                   /\ saw_first_tag' = [saw_first_tag EXCEPT ![k] = r.session.saw_first_tag]
                   /\ yielded' = [yielded EXCEPT ![k] = @ \o r.out]
           IN  /\ Fed(FeedChunk(SessionOf(k), Slice(pending[k], 0, n)))
               /\ fed' = [fed EXCEPT ![k] = Append(@, Slice(pending[k], 0, n))]
               /\ pending' = [pending EXCEPT ![k] = Slice(@, n, Len(@))]
    /\ UNCHANGED <<final, spc, max_nesting_depth, depth>>
    /\ UNCHANGED coreVars

\* session k.finalize()
FinalizeSession(k) ==
    /\ spc[k] = "open"
    /\ pending[k] = <<>>
    /\ final' = [final EXCEPT ![k] = Finalized(SessionOf(k))]
    /\ stream_stack' = [stream_stack EXCEPT ![k] = <<>>]
    /\ spc' = [spc EXCEPT ![k] = "finalized"]
    /\ UNCHANGED <<pending, fed, buffer, state, saw_first_tag, yielded,
                   max_nesting_depth, depth>>
    /\ UNCHANGED coreVars

NextSessions ==
    \/ \E k \in Sessions : FeedSession(k)
    \/ \E k \in Sessions : FinalizeSession(k)

SpecSessions == InitSessions /\ [][NextSessions]_vars

\* A session that is fed the chunks alone, from __init__: the session after
\* the last feed and the fragments yielded, in order.
RECURSIVE RunAlone(_, _, _)
RunAlone(chunks, sess, out) ==
    LET Then(r) == RunAlone(Tail(chunks), r.session, out \o r.out)
    IN  IF chunks = <<>> THEN [session |-> sess, out |-> out]
        ELSE Then(FeedChunk(sess, Head(chunks)))

Alone(k) == RunAlone(fed[k], Session(<<>>, "INITIAL", <<>>, FALSE), <<>>)

\* C17: whatever calls were made on the other session in between, a session
\* has yielded what it yields when fed the same chunks alone and is in the
\* state it is then in; once finalized it has yielded from finalize what it
\* then yields, and its stack is empty.
SessionsIndependent ==
    LET Same(k, alone) ==
            /\ yielded[k] = alone.out
            /\ buffer[k] = alone.session.buffer
            /\ state[k] = alone.session.state
            /\ saw_first_tag[k] = alone.session.saw_first_tag
            /\ spc[k] = "open" => stream_stack[k] = alone.session.tag_stack
            /\ spc[k] = "finalized" =>
                   /\ final[k] = Finalized(alone.session)
                   /\ stream_stack[k] = <<>>
    IN  \A k \in Sessions : Same(k, Alone(k))

\* session 1 has an open tag on its stack while session 2, fed in between,
\* was finalized with a different one
InterleavedSessions ==
    /\ spc[1] = "open" /\ spc[2] = "finalized"
    /\ Len(fed[1]) >= 2 /\ Len(fed[2]) >= 2
    /\ stream_stack[1] = <<(<<"a">>)>>
    /\ final[2] = <<(<<"<", "/", "b", ">">>)>>
-----------------------------------------------------------------------------
(* repair_xml on three further families of input, each under the           *)
(* configuration that brings its branches of the rebuild loop into play:   *)
(* text inside CDATA-candidate elements with auto_wrap_cdata set,          *)
(* dangerous elements nested in each other with strip_dangerous_tags set,  *)
(* and tag names with well-known namespace prefixes.                       *)

\* pre is a CDATA-candidate tag; "&" makes the buffered text need CDATA
CdataFragments ==
    { <<"<", "p", "r", "e", ">">>,
      <<"<", "/", "p", "r", "e", ">">>,
      <<"a">>,
      <<"&">>,
      <<" ">>,
      <<"<", "!", "-", "-", "c", "-", "-", ">">>,
      <<"<", "!", "[", "C", "D", "A", "T", "A", "[", "d", "]", "]", ">">>,
      <<"<", "?", "x", "?", ">">>,
      <<"<", "!", "D", "O", "C", "T", "Y", "P", "E", " ", "e", ">">>,
      <<"<", "b", "/", ">">> }

CdataConfig == [DefaultConfig EXCEPT !.auto_wrap_cdata = TRUE]

\* text and a comment by turns inside a CDATA-candidate element
CdataExample ==
    <<"<", "p", "r", "e", ">", "a", "<", "!", "-", "-", "c", "-", "-", ">", "&", "<", "/", "p", "r", "e", ">">>

\* link and script are on the dangerous-tag list; "<link" and "</a" are cut
\* off by the end of the input
DangerFragments ==
    { <<"<", "l", "i", "n", "k", ">">>,
      <<"<", "s", "c", "r", "i", "p", "t", ">">>,
      <<"<", "/", "l", "i", "n", "k", ">">>,
      <<"<", "/", "s", "c", "r", "i", "p", "t", ">">>,
      <<"<", "l", "i", "n", "k">>,
      <<"<", "L", "I", "N", "K", ">">>,
      <<"<", "a", ">">>,
      <<"<", "/", "a", ">">>,
      <<"<", "/", "a">>,
      <<"x">> }

\* soap, xsi and xs are well-known prefixes, ns is not
NamespaceFragments ==
    { <<"<", "s", "o", "a", "p", ":", "a", ">">>,
      <<"<", "x", "s", "i", ":", "b", " ", "k", "=", "\"", "1", "\"", ">">>,
      <<"<", "s", "o", "a", "p", ":", "a", "/", ">">>,
      <<"<", "/", "s", "o", "a", "p", ":", "a", ">">>,
      <<"<", "n", "s", ":", "c", ">">>,
      <<"<", "l", "i", "n", "k", ">">>,
      <<"<", "x", "s", ":", "d">>,
      <<"x">> }

\* the pairs of configuration and input
RebuildCases ==
    ({CdataConfig} \X (Concatenations(CdataFragments, MaxPieces) \cup {CdataExample}))
        \cup ({UntrustedConfig} \X Concatenations(DangerFragments, MaxPieces))
        \cup ({DefaultConfig, UntrustedConfig} \X Concatenations(NamespaceFragments, MaxPieces))

InitRebuild ==
    /\ \E case \in RebuildCases : cfg = case[1] /\ xml_string = case[2]
    /\ pc = "start"
    /\ namespaces = <<>> /\ tokens = <<>> /\ i = 0 /\ result = <<>>
    /\ tag_stack = <<>> /\ dangerous_tag_stack = <<>> /\ first_open_tag = TRUE
    /\ text_buffer = <<>> /\ in_cdata_candidate = FALSE /\ repaired = <<>>
    /\ StreamIdle

SpecRebuild == InitRebuild /\ [][Next]_vars

\* C23: the rebuild pass emits in document order: when a step appends the
\* output of its token to result, no output of an earlier token is still
\* held back in text_buffer.
EmitsInDocumentOrder ==
    [][(pc = "rebuild" /\ Len(result') > Len(result)) => text_buffer' = <<>>]_vars
\* the rebuild loop is at a close tag and strip_dangerous_tags is set
AtCloseTagStripping == AtToken({"close_tag"}) /\ cfg.strip_dangerous_tags

\* the step appended no markup: at most the flushed text buffer
NoMarkupEmitted ==
    \A n \in (Len(result) + 1)..Len(result') : result'[n].by = "flush"

\* C26 as stated: a close tag closes a suppressed dangerous element only if
\* its lowercased name is the one on top of the dangerous-tag stack; then
\* that entry is popped and no markup is emitted, and otherwise the
\* dangerous-tag stack is left as it is.
OnlyTopDangerousCloses ==
    [][AtCloseTagStripping =>
           LET name == lower(At(tokens, i).content)
               depth_d == Len(dangerous_tag_stack)
           IN  IF depth_d > 0 /\ dangerous_tag_stack[depth_d][2] = name
               THEN /\ dangerous_tag_stack' = SubSeq(dangerous_tag_stack, 1, depth_d - 1)
                    /\ NoMarkupEmitted
               ELSE dangerous_tag_stack' = dangerous_tag_stack]_vars

\* C26 amended: a close tag closes a suppressed dangerous element if its
\* lowercased name is that of any entry of the dangerous-tag stack; the
\* oldest such entry is removed, the others stay, the open-tag stack is
\* untouched and no markup is emitted.  A close tag that matches no entry
\* leaves the dangerous-tag stack alone and is matched against the open-tag
\* stack: it is emitted, as written or as the closing tags of what it closes.
DangerousCloseRemovesOldestMatch ==
    [][AtCloseTagStripping =>
           LET name == lower(At(tokens, i).content)
               matching == {k \in 1..Len(dangerous_tag_stack) :
                                dangerous_tag_stack[k][2] = name}
               Oldest(k) == \A m \in matching : k <= m
           IN  IF matching # {}
               THEN /\ \E k \in matching :
                          /\ Oldest(k)
                          /\ dangerous_tag_stack'
                                 = SubSeq(dangerous_tag_stack, 1, k - 1)
                                   \o SubSeq(dangerous_tag_stack, k + 1,
                                             Len(dangerous_tag_stack))
                    /\ tag_stack' = tag_stack
                    /\ NoMarkupEmitted
               ELSE /\ dangerous_tag_stack' = dangerous_tag_stack
                    /\ Len(result') > Len(result)
                    /\ result'[Len(result')].by \in {"close_match", "close_verbatim"}]_vars

\* "</script>" has closed the script element below the link element that is
\* still suppressed
ClosedDeeperDangerous ==
    /\ pc = "rebuild"
    /\ xml_string = <<"<", "s", "c", "r", "i", "p", "t", ">", "<", "l", "i", "n", "k", ">",
                      "<", "/", "s", "c", "r", "i", "p", "t", ">">>
    /\ i = Len(tokens)
    /\ dangerous_tag_stack = <<(<<(<<"l", "i", "n", "k">>), <<"l", "i", "n", "k">>>>)>>
    /\ result = <<>>
\* C27: an incomplete tag with a dangerous name is handled like an open
\* tag: nothing is emitted for it and its name goes on the dangerous-tag
\* stack, not on the open-tag stack.
IncompleteDangerousSuppressed ==
    [][(/\ AtToken({"incomplete_tag"})
        /\ HasTagName(tokens, i)
        /\ should_strip_dangerous_tag(cfg, At(tokens, i + 1).content)) =>
           /\ NoMarkupEmitted
           /\ tag_stack' = tag_stack
           /\ dangerous_tag_stack'
                  = Append(dangerous_tag_stack,
                           <<At(tokens, i + 1).content, lower(At(tokens, i + 1).content)>>)]_vars

\* C28: no entry of the open-tag stack has a name that begins with "/", and
\* no emitted piece is a close tag of the form "<//name>".
OnlyOpenedOnStack ==
    /\ \A k \in 1..Len(tag_stack) : ~startswith(tag_stack[k][1], <<"/">>)
    /\ \A n \in 1..Len(result) : ~startswith(result[n].text, <<"<", "/", "/">>)
\* the piece carries namespace declarations (no input of the bound does)
Injected(piece) == contains(piece.text, <<"x", "m", "l", "n", "s", ":">>)

\* the positions in result of the open and incomplete tags emitted so far
EmittedTags == {n \in 1..Len(result) : result[n].by \in {"open_tag", "incomplete_tag"}}

\* the well-known prefixes that a tag name of the text uses
UsedPrefixes(text) ==
    {COMMON_NAMESPACES[n][1] : n \in {m \in 1..Len(COMMON_NAMESPACES) :
        \/ contains(text, <<"<">> \o COMMON_NAMESPACES[m][1] \o <<":">>)
        \/ contains(text, <<"<", "/">> \o COMMON_NAMESPACES[m][1] \o <<":">>)}}

\* the piece is a tag with the declarations of ns right after its name
DeclaredAfterName(piece, ns) ==
    LET with_decls == <<"<">> \o FirstWord(Slice(piece.text, 1, Len(piece.text) - 1))
                          \o <<" ">> \o XmlnsDecls(ns)
        rest == Slice(piece.text, Len(with_decls), Len(piece.text))
    IN  /\ startswith(piece.text, with_decls)
        /\ rest = <<">">> \/ (startswith(rest, <<" ">>) /\ endswith(rest, <<">">>))
        /\ ~contains(rest, <<"x", "m", "l", "n", "s", ":">>)

\* C30 as stated: when a tag name of the input uses a well-known prefix, the
\* finished repair has exactly one tag with the declarations, and it is the
\* first open or incomplete tag emitted.
InjectedIntoExactlyOneTag ==
    (pc = "done" /\ UsedPrefixes(xml_string) # {}) =>
        /\ Cardinality({n \in 1..Len(result) : Injected(result[n])}) = 1
        /\ \A n \in EmittedTags :
               Injected(result[n]) <=> (\A m \in EmittedTags : n <= m)

\* C30 amended: the prefixes declared are the well-known ones used in tag
\* names; if the repair emits an open or incomplete tag, the first of them
\* carries the declarations right after its name and before its attributes,
\* and no other piece carries any; if it emits none, nothing is injected.
InjectedIntoFirstEmittedTag ==
    pc \in {"rebuild", "done"} =>
        /\ {namespaces[n] : n \in 1..Len(namespaces)} = UsedPrefixes(xml_string)
        /\ \A n \in 1..Len(result) :
               IF n \in EmittedTags /\ namespaces # <<>> /\ (\A m \in EmittedTags : n <= m)
               THEN DeclaredAfterName(result[n], namespaces)
               ELSE ~Injected(result[n])

\* the dangerous first tag was dropped, the next tag took the declarations
\* of both prefixes before its attribute, and the tag after it took none
InjectedAfterSuppressedTag ==
    /\ pc = "done"
    /\ cfg = UntrustedConfig
    /\ xml_string = <<"<", "l", "i", "n", "k", ">", "<", "x", "s", "i", ":", "b", " ", "k",
                      "=", "\"", "1", "\"", ">", "<", "s", "o", "a", "p", ":", "a", ">">>
    /\ Len(result) = 4
    /\ result[1].text = <<"<", "x", "s", "i", ":", "b", " ">> \o XmlnsDecls(namespaces)
                            \o <<" ", "k", "=", "\"", "1", "\"", ">">>
    /\ namespaces = << <<"x", "s", "i">>, <<"s", "o", "a", "p">> >>
    /\ result[2].text = <<"<", "s", "o", "a", "p", ":", "a", ">">>
-----------------------------------------------------------------------------
(* XMLRepairEngine.tokenize an iteration at a time on three families of    *)
(* text: tags with quoted attribute values, "<" characters that start no   *)
(* tag, and DOCTYPE declarations with an internal subset.                  *)

\* a tag begun, quoted values holding ">", lone quotes, ">" and "/>"
QuotedTagFragments ==
    { <<"<", "a", " ", "b", "=">>,
      <<"<", "/", "a", " ">>,
      <<"\"", ">", "\"">>,
      <<"'", ">", "'">>,
      <<"\"">>,
      <<"'">>,
      <<">">>,
      <<"/", ">">>,
      <<"x">>,
      <<" ", "c", "=">> }

\* "<" before a space, a digit, "=", "<" and at the end of the text; tags
\* that begin with each kind of tag start character
LiteralLtFragments ==
    { <<"<">>,
      <<"<", " ">>,
      <<"<", "1">>,
      <<"<", "=">>,
      <<"x">>,
      <<"<", "a", ">">>,
      <<"<", "/", "a", ">">>,
      <<"<", "_", "b", ">">>,
      <<"<", ":", "c">>,
      <<"<", "?", "x", "?", ">">>,
      <<"<", "!", "-", "-", "c", "-", "-", ">">> }

\* a DOCTYPE with an internal subset begun, brackets in the subset, ">"
DoctypeFragments ==
    { <<"<", "!", "D", "O", "C", "T", "Y", "P", "E", " ", "a", "[">>,
      <<"<", "!", "d", "o", "c", "t", "y", "p", "e", " ", "a">>,
      <<"[", "x", "]", "<", "!", "e", ">">>,
      <<"]", ">">>,
      <<">">>,
      <<"<", "!", "e", ">">>,
      <<"\"", "]", "\"">>,
      <<"<", "a", ">">>,
      <<"x">> }

MaxLexPieces == 3

LexInputs ==
    Concatenations(QuotedTagFragments, MaxLexPieces)
        \cup Concatenations(LiteralLtFragments, MaxLexPieces)
        \cup Concatenations(DoctypeFragments, MaxLexPieces)

\* tokenize is called with a text
EnterLex ==
    /\ pc = "idle"
    /\ \E text \in LexInputs :
           /\ xml_string' = text
           /\ namespaces' = extract_namespaces(text)
    /\ pc' = "tokenize"
    /\ UNCHANGED <<cfg, tokens, i, result, tag_stack, dangerous_tag_stack,
                   first_open_tag, text_buffer, in_cdata_candidate, repaired>>
    /\ UNCHANGED streamVars

NextLex ==
    \/ EnterLex
    \/ Scan
    \/ ScanTruncated
    \/ ScanEnd

SpecLex == InitScan /\ [][NextLex]_vars
\* the scan stands on a "<" that begins a regular tag: one followed by a
\* letter, "_", ":" or "/"
RegularTagAt(s, k) ==
    /\ k + 1 < Len(s)
    /\ At(s, k) = "<"
    /\ isalpha(At(s, k + 1)) \/ At(s, k + 1) \in {"_", ":", "/"}

\* the quote character that is open just before each offset from a on, ""
\* when none is: a quote opens a value, the same quote closes it
OpenQuote(s, a) ==
    LET before[k \in a..Len(s)] ==
            IF k = a THEN ""
            ELSE IF before[k - 1] = ""
                 THEN (IF At(s, k - 1) \in {"\"", "'"} THEN At(s, k - 1) ELSE "")
                 ELSE (IF At(s, k - 1) = before[k - 1] THEN "" ELSE before[k - 1])
    IN  before

\* the offsets from a on of the ">" characters outside quoted values
UnquotedGts(s, a) ==
    {k \in a..(Len(s) - 1) : At(s, k) = ">" /\ OpenQuote(s, a)[k] = ""}

\* C31: the scan of a regular tag ends just past the first ">" outside
\* quoted values and gives a complete tag; if there is no such ">" before
\* the end of the input, the tokenizer stops with an incomplete tag that
\* holds all the text after "<", trimmed and attribute-repaired, and its name.
QuotedGtKeepsTag ==
    [][(pc = "tokenize" /\ i < Len(xml_string) /\ RegularTagAt(xml_string, i)) =>
           LET gts == UnquotedGts(xml_string, i + 1)
               rest == fix_malformed_attributes(strip(Slice(xml_string, i + 1,
                                                            Len(xml_string))))
           IN  IF gts # {}
               THEN /\ pc' = "tokenize"
                    /\ \A k \in gts : i' <= k + 1
                    /\ i' - 1 \in gts
                    /\ Len(tokens') > Len(tokens)
                    /\ tokens'[Len(tokens) + 1].type
                           \in {"open_tag", "close_tag", "self_closing_tag"}
               ELSE /\ pc' = "rebuild"
                    /\ tokens' = tokens \o <<XMLToken("incomplete_tag", rest, i),
                                             XMLToken("tag_name", FirstWord(rest), i)>>]_vars
\* offset k holds a "<" that can begin a tag: a character follows it and
\* that character is a letter, "_", ":", "/", "!" or "?"
TagStartAt(s, k) ==
    k + 1 < Len(s) /\ At(s, k) = "<" /\ IsTagStart(At(s, k + 1))

\* C32: a "<" that is the last character or is followed by no tag start
\* character is tokenized as the beginning of a text token, never as a tag:
\* the text token runs up to the next "<" that is last or can begin a tag
\* (or to the end of the input) and swallows no "<" that can begin a tag,
\* so the scan stands on every later tag; and every token other than text
\* is positioned at a "<" that can begin a tag.
LiteralLtStaysText ==
    [][(pc = "tokenize" /\ i < Len(xml_string)) =>
           /\ \A m \in 1..Len(tokens') :
                  tokens'[m].type # "text" => TagStartAt(xml_string, tokens'[m].position)
           /\ (At(xml_string, i) = "<" /\ ~TagStartAt(xml_string, i)) =>
                  /\ pc' = "tokenize"
                  /\ i' > i
                  /\ tokens' = tokens \o <<XMLToken("text", Slice(xml_string, i, i'), i)>>
                  /\ i' < Len(xml_string) => At(xml_string, i') = "<"
                  /\ \A k \in (i + 1)..(i' - 1) : ~TagStartAt(xml_string, k)]_vars

\* a text token that begins with a literal "<" is followed by the token of
\* a tag that was recognized after it
TagAfterLiteralLt ==
    /\ pc = "rebuild"
    /\ \E m \in 1..(Len(tokens) - 1) :
           /\ tokens[m].type = "text"
           /\ tokens[m].content[1] = "<"
           /\ tokens[m + 1].type = "open_tag"
           /\ tokens[m + 1].position = tokens[m].position + Len(tokens[m].content)
\* the scan stands on "<!DOCTYPE" in either case
DoctypeAt(s, k) ==
    k + 9 <= Len(s) /\ upper(Slice(s, k, k + 9)) = <<"<","!","D","O","C","T","Y","P","E">>

\* the number of "[" still open just before each offset from a on
BracketDepth(s, a) ==
    LET open[k \in a..Len(s)] ==
            IF k = a THEN 0
            ELSE IF At(s, k - 1) = "[" THEN open[k - 1] + 1
            ELSE IF At(s, k - 1) = "]" /\ open[k - 1] > 0 THEN open[k - 1] - 1
            ELSE open[k - 1]
    IN  open

\* C33: the doctype token ends just past the first ">" that no open "["
\* encloses, whatever the nesting of "[" and "]" before it, or at the end
\* of the input when there is no such ">".
DoctypeEndsAtTopLevelGt ==
    [][(pc = "tokenize" /\ i < Len(xml_string) /\ DoctypeAt(xml_string, i)) =>
           LET top == {k \in (i + 9)..(Len(xml_string) - 1) :
                           At(xml_string, k) = ">" /\ BracketDepth(xml_string, i + 9)[k] = 0}
           IN  /\ tokens' = tokens \o <<XMLToken("doctype", Slice(xml_string, i, i'), i)>>
               /\ IF top = {} THEN i' = Len(xml_string)
                  ELSE i' - 1 \in top /\ \A k \in top : i' <= k + 1]_vars
-----------------------------------------------------------------------------
(* Three text functions of XMLRepairEngine called on their own:            *)
(* _wrap_in_cdata, fix_malformed_attributes and levenshtein_distance.      *)

\* "]" alone and doubled, the section terminator, a section opening and the
\* characters that make flush_text_buffer wrap
CdataPieces ==
    { <<"]">>, <<"]", "]", ">">>, <<">">>, <<"x">>, <<"<">>, CdataOpen }

MaxCdataPieces == 4

CdataTexts == Concatenations(CdataPieces, MaxCdataPieces)

MaxWord == 3

\* the words of at most n letters over a and b
RECURSIVE WordsUpTo(_)
WordsUpTo(n) ==
    IF n = 0 THEN {<<>>}
    ELSE WordsUpTo(n - 1) \cup {Append(w, c) : w \in WordsUpTo(n - 1), c \in {"a", "b"}}

ShortWords == WordsUpTo(MaxWord)

\* unquoted values: one word, words with one blank, two blanks and a tab
\* between them, and a word followed by a blank and an "=" with no name
UnquotedValues ==
    { <<"3", "0">>,
      <<"J", "o", "h", "n", " ", "S", "m", "i", "t", "h">>,
      <<"J", " ", " ", "S">>,
      <<"a", "\t", "b">>,
      <<"x", " ", "=", "2">> }

\* the name of the attribute at each place, the third with "-", ":" and "_"
SpacedNames == << <<"n", "a", "m", "e">>, <<"a", "g", "e">>, <<"x", "-", "y", ":", "z", "_">>,
                  <<"i", "d">> >>

MaxSpacedAttrs == 2

\* the tag contents "t" followed by n attributes with unquoted values, one
\* or two blanks before each
RECURSIVE SpacedContents(_)
SpacedContents(n) ==
    IF n = 0 THEN {<<"t">>}
    ELSE {c \o gap \o SpacedNames[n] \o <<"=">> \o v :
              c \in SpacedContents(n - 1), gap \in {<<" ">>, <<" ", " ">>}, v \in UnquotedValues}

SpacedInputs == UNION {SpacedContents(n) : n \in 1..MaxSpacedAttrs}

TextCalls == {"wrap_in_cdata", "levenshtein_distance", "fix_malformed_attributes"}

TextInputs(call) ==
    CASE call = "wrap_in_cdata" -> CdataTexts
      [] call = "levenshtein_distance" -> ShortWords
      [] OTHER -> SpacedInputs

InitText ==
    /\ pc \in TextCalls
    /\ xml_string \in TextInputs(pc)
    /\ cfg = DefaultConfig
    /\ namespaces = <<>> /\ tokens = <<>> /\ i = 0 /\ result = <<>>
    /\ tag_stack = <<>> /\ dangerous_tag_stack = <<>> /\ first_open_tag = TRUE
    /\ text_buffer = <<>> /\ in_cdata_candidate = FALSE /\ repaired = <<>>
    /\ StreamIdle

\* _wrap_in_cdata(content)
WrapInCdata ==
    /\ pc = "wrap_in_cdata"
    /\ Returned(wrap_in_cdata(xml_string), "cdata_wrapped")

\* levenshtein_distance(s1, s2) for each second word
LevenshteinDistance ==
    /\ pc = "levenshtein_distance"
    /\ \E s2 \in ShortWords :
           Returned([s1 |-> xml_string, s2 |-> s2,
                     distance |-> levenshtein_distance(xml_string, s2)],
                    "distance_computed")

NextText ==
    \/ WrapInCdata
    \/ LevenshteinDistance
    \/ FixMalformedAttributes

SpecText == InitText /\ [][NextText]_vars

\* a text read as CDATA sections laid end to end, each running from
\* "<![CDATA[" to the first "]]>" after it: whether the whole text is such a
\* sequence, and the contents of the sections joined
RECURSIVE CdataSections(_)
CdataSections(w) ==
    LET Closed(e) ==
            IF e = -1 THEN [ok |-> FALSE, content |-> <<>>]
            ELSE LET rest == CdataSections(Slice(w, e + 3, Len(w)))
                 IN  [ok |-> rest.ok, content |-> Slice(w, 9, e) \o rest.content]
    IN  IF w = <<>> THEN [ok |-> TRUE, content |-> <<>>]
        ELSE IF ~startswith(w, CdataOpen) THEN [ok |-> FALSE, content |-> <<>>]
        ELSE Closed(find(w, CdataClose, 9))

\* C34: what _wrap_in_cdata returns is one or more CDATA sections laid end
\* to end with nothing between or after them, each ended by the first "]]>"
\* after its opening (so no "]]>" is left inside a section or outside one),
\* and the sections' contents joined are the content that was wrapped.
WrappingLossless ==
    pc = "cdata_wrapped" =>
        /\ result # <<>>
        /\ CdataSections(result).ok
        /\ CdataSections(result).content = xml_string

\* content with a "]]>" that is not at its end was wrapped
WrappedTerminator ==
    /\ pc = "cdata_wrapped"
    /\ \E k \in 0..(Len(xml_string) - 4) : Slice(xml_string, k, k + 3) = CdataClose
    /\ CdataSections(result).content = xml_string

\* the least number of insertions, deletions and substitutions of one
\* character that turn s into t
RECURSIVE EditDistance(_, _)
EditDistance(s, t) ==
    IF s = <<>> THEN Len(t)
    ELSE IF t = <<>> THEN Len(s)
    ELSE Min3(EditDistance(Tail(s), t) + 1,
              EditDistance(s, Tail(t)) + 1,
              EditDistance(Tail(s), Tail(t)) + (IF Head(s) = Head(t) THEN 0 ELSE 1))

\* C39: levenshtein_distance(s1, s2) is the edit distance of s1 and s2, is
\* the same with the arguments exchanged, is 0 exactly when s1 = s2 and is the
\* other string's length when one of them is empty.
LevenshteinIsEditDistance ==
    pc = "distance_computed" =>
        /\ result.distance = EditDistance(result.s1, result.s2)
        /\ result.distance = levenshtein_distance(result.s2, result.s1)
        /\ result.distance = 0 <=> result.s1 = result.s2
        /\ result.s1 = <<>> => result.distance = Len(result.s2)
        /\ result.s2 = <<>> => result.distance = Len(result.s1)

\* a shorter first word at distance 2 from the second: one substitution and
\* one insertion
DistanceOfShorterFirst ==
    /\ pc = "distance_computed"
    /\ result = [s1 |-> <<"a", "b">>, s2 |-> <<"b", "b", "a">>, distance |-> 2]
\* a new attribute begins after the whitespace at offset k: whitespace from
\* k on, then a word of letters, digits, "_", "-" and ":", then "="
WordEqualsAfter(content, k) ==
    \E j \in (k + 1)..(Len(content) - 1) : \E w \in (j + 1)..(Len(content) - 1) :
        /\ \A q \in k..(j - 1) : isspace(At(content, q))
        /\ \A q \in j..(w - 1) : At(content, q) \in AttrNameChars
        /\ At(content, w) = "="

\* where the unquoted value that begins at offset v ends
UnquotedValueEnd(content, v) ==
    LET ends == {k \in v..(Len(content) - 1) : WordEqualsAfter(content, k)}
    IN  IF ends = {} THEN Len(content)
        ELSE CHOOSE k \in ends : \A e \in ends : k <= e

\* the attributes written from the whitespace at offset k on, each emitted
\* with its unquoted value trimmed, escaped and between double quotes
RECURSIVE QuotedFrom(_, _)
QuotedFrom(content, k) ==
    LET name_start == CHOOSE j \in k..Len(content) :
                          /\ j = Len(content) \/ ~isspace(At(content, j))
                          /\ \A q \in k..(j - 1) : isspace(At(content, q))
        equals == find(content, <<"=">>, name_start)
        value_end == UnquotedValueEnd(content, equals + 1)
    IN  IF k >= Len(content) THEN <<>>
        ELSE <<" ">> \o Slice(content, name_start, equals) \o <<"=", "\"">>
                 \o escape_attribute_value(strip(Slice(content, equals + 1, value_end)), "\"")
                 \o <<"\"">> \o QuotedFrom(content, value_end)

\* C35: an unquoted attribute value is everything from after "=" up to the
\* whitespace that precedes the next word followed by "=", or up to the end
\* of the tag content when no word followed by "=" comes; whitespace inside
\* it stays.  The repaired content is the tag name and each attribute with
\* that value, trimmed, between double quotes.
UnquotedValueUpToNextWord ==
    pc = "attributes_fixed" => result.text = <<"t">> \o QuotedFrom(xml_string, 1)
\* the text from offset k on is a run of attributes, each a blank, a name,
\* "=", a quote character, a value without that character, and the same
\* quote character again
RECURSIVE BalancedAttributes(_, _)
BalancedAttributes(text, k) ==
    LET equals == find(text, <<"=">>, k)
        open == equals + 1
        Closing(close) == close # -1 /\ BalancedAttributes(text, close + 1)
    IN  \/ k >= Len(text)
        \/ /\ At(text, k) = " "
           /\ equals # -1
           /\ open < Len(text)
           /\ At(text, open) \in Quotes
           /\ Closing(find(text, <<At(text, open)>>, open + 1))

\* C36: in the text attribute repair returns, every attribute's value stands
\* between an opening quote character and a closing one of the same kind,
\* also when the content ended right after "name=" or inside a quoted value.
EmittedValuesBalanced ==
    pc = "attributes_fixed" => BalancedAttributes(result.text, 1)
-----------------------------------------------------------------------------
(* The streaming session before its first tag and inside a tag.            *)

\* the chunk that the feed step of this transition passes
ChunkFed == SubSeq(fed', Len(fed) + 1, Len(fed'))

\* the transition is a call of feed
FeedStep == spc' = "open"

\* C37: a feed in INITIAL whose buffer and chunk hold no "<" yields nothing,
\* keeps buffer and chunk whole and stays in INITIAL; a feed that brings the
\* first "<" leaves INITIAL and goes on exactly as a session already in
\* IN_TEXT would on the text from that "<" on, so what came before the "<"
\* is neither yielded nor kept for finalize; finalize in INITIAL yields
\* nothing; and a session that has left INITIAL is never in it again.
FluffBeforeFirstTagDropped ==
    [][LET text == buffer \o ChunkFed
           idx == find(text, <<"<">>, 0)
           After(clean) ==
               /\ yielded' = yielded \o Join(clean.out)
               /\ buffer' = clean.session.buffer
               /\ state' = clean.session.state
               /\ stream_stack' = clean.session.tag_stack
       IN  /\ (state = "INITIAL" /\ FeedStep) =>
                  IF idx = -1
                  THEN yielded' = yielded /\ buffer' = text /\ state' = "INITIAL"
                  ELSE /\ state' # "INITIAL"
                       /\ After(FeedChunk(Session(<<>>, "IN_TEXT", <<>>, TRUE),
                                          Slice(text, idx, Len(text))))
           /\ (state = "INITIAL" /\ ~FeedStep) => final' = <<>>
           /\ state # "INITIAL" => state' # "INITIAL"]_vars

\* "x<a>" was streamed and finalized: the x before the tag is in no output
FluffNeverEmitted ==
    /\ spc = "finalized"
    /\ xml_string = <<"x", "<", "a", ">">>
    /\ state # "INITIAL"
    /\ yielded = <<"<", "a", ">">>
    /\ final = << <<"<", "/", "a", ">">> >>

\* C38: a feed in IN_TAG whose buffer and chunk hold no ">" yields nothing,
\* keeps buffer and chunk whole and stays in IN_TAG; and of the fragments a
\* feed yields, each one that begins with "<" ends with ">", the only ">"
\* in it.
PartialTagWithheld ==
    [][FeedStep =>
           LET text == buffer \o ChunkFed
               Yields(out) ==
                   /\ yielded' = yielded \o Join(out)
                   /\ \A k \in 1..Len(out) :
                          out[k][1] = "<" => find(out[k], <<">">>, 0) = Len(out[k]) - 1
           IN  /\ (state = "IN_TAG" /\ find(text, <<">">>, 0) = -1) =>
                      yielded' = yielded /\ buffer' = text /\ state' = "IN_TAG"
               /\ Yields(FeedChunk(Sess, ChunkFed).out)]_vars

\* "</a" arrived after "<a>" and is held back whole
PartialTagBuffered ==
    /\ spc = "open"
    /\ pending = <<>>
    /\ state = "IN_TAG"
    /\ buffer = <<"<", "/", "a">>
    /\ yielded = <<"<", "a", ">">>

=============================================================================
